---- MODULE Spec2Model ----
(***************************************************************************)
(* The backtest simulation engine of src/backtester.py: the portfolio      *)
(* ledger (execute_trade, get_portfolio_value), the position sizing rule   *)
(* and the replay loop of run_backtest, as a state machine.                *)
(*                                                                         *)
(* Money is exact: prices and cash are integers (currency units), an       *)
(* average price, a position's cost and a portfolio value are rationals    *)
(* <<numerator, denominator>> in lowest terms. Python's float arithmetic   *)
(* is modelled by exact rational arithmetic.                               *)
(***************************************************************************)
EXTENDS Integers, Sequences, FiniteSets, TLC

\* ------------------------------------------------------------- bounds
MaxBars == 2
MaxSignals == 2
MaxQty == 2
MaxCalls == 3

Symbols == {"AAPL", "MSFT"}
RunSymbols == {"AAPL"}
Prices == {10, 20}
Capitals == {50, 100}

\* An undefined close (pandas NaN); pd_isna recognises it.
NaN == -1
\* variant: no value is treated as undefined
pd_isna_never(x) == FALSE
pd_isna(x) == x = NaN
Closes == Prices \cup {NaN}

\* ---------------------------------------------------------- rationals
Abs(n) == IF n < 0 THEN -n ELSE n

RECURSIVE GCD(_, _)
GCD(a, b) == IF b = 0 THEN a ELSE GCD(b, a % b)

Rat(n, d) ==
    LET g == GCD(Abs(n), Abs(d))
        s == IF d < 0 THEN -1 ELSE 1
    IN  IF n = 0 THEN <<0, 1>> ELSE <<s * (n \div g), s * (d \div g)>>

RatInt(n) == <<n, 1>>
RatAdd(x, y) == Rat(x[1] * y[2] + y[1] * x[2], x[2] * y[2])
RatSub(x, y) == Rat(x[1] * y[2] - y[1] * x[2], x[2] * y[2])
RatMulInt(x, k) == Rat(x[1] * k, x[2])
RatDiv(x, y) == Rat(x[1] * y[2], x[2] * y[1])
RatLeq(x, y) == x[1] * y[2] <= y[1] * x[2]

\* the floats that are not numbers: the results of a division by zero
NaNF == <<0, 0>>
PosInf == <<1, 0>>
NegInf == <<-1, 0>>
IsNumber(x) == x[2] # 0
\* numpy's x / y, x + y and x - y (no exception on a zero divisor); an operand
\* that is not a number gives NaN (no infinity is ever an operand here)
FDiv(x, y) ==
    IF ~IsNumber(x) \/ ~IsNumber(y) THEN NaNF
    ELSE IF y[1] = 0
    THEN (IF x[1] = 0 THEN NaNF ELSE IF x[1] > 0 THEN PosInf ELSE NegInf)
    ELSE RatDiv(x, y)
FAdd(x, y) == IF ~IsNumber(x) \/ ~IsNumber(y) THEN NaNF ELSE RatAdd(x, y)
FSub(x, y) == IF ~IsNumber(x) \/ ~IsNumber(y) THEN NaNF ELSE RatSub(x, y)

\* ------------------------------------------------------------- ledger
\* self.positions = {} (no symbol held)
NoPositions == [s \in {} |-> 0]

RECURSIVE SumPositions(_, _, _, _)
SumPositions(positions, held, current_price, symbol) ==
    IF held = {} THEN RatInt(0)
    ELSE LET pos_symbol == CHOOSE s \in held : TRUE
             position == positions[pos_symbol]
             term == IF pos_symbol = symbol
                     THEN RatInt(position.quantity * current_price)
                     ELSE RatMulInt(position.avg_price, position.quantity)
         IN  RatAdd(term, SumPositions(positions, held \ {pos_symbol},
                                       current_price, symbol))

\* variant: the priced symbol is marked at its average cost like the others
get_portfolio_value_at_cost(cash, positions, current_price, symbol) ==
    RatAdd(RatInt(cash),
           SumPositions(positions, DOMAIN positions, current_price, "none"))

\* get_portfolio_value(current_price, symbol) on a ledger (cash, positions)
get_portfolio_value(cash, positions, current_price, symbol) ==
    RatAdd(RatInt(cash),
           SumPositions(positions, DOMAIN positions, current_price, symbol))

\* variant: the trade is put at the front of the log
RecordTrade_prepend(history, trade) == <<trade>> \o history

\* self.trade_history.append(trade)
RecordTrade(history, trade) == Append(history, trade)

\* variant: the cash check is missing
CanAfford_always(cost, cash) == TRUE

\* the BUY branch of execute_trade's guard: the fill is affordable
CanAfford(cost, cash) == cost <= cash

\* variant: a BUY that adds to a position keeps the old average price
BuyPosition_keep_avg(positions, symbol, quantity, price) ==
    LET cost == quantity * price
    IN  IF symbol \in DOMAIN positions
        THEN [quantity |-> positions[symbol].quantity + quantity,
              avg_price |-> positions[symbol].avg_price,
              cost |-> RatAdd(positions[symbol].cost, RatInt(cost))]
        ELSE [quantity |-> quantity,
              avg_price |-> RatInt(price),
              cost |-> RatInt(cost)]

\* the position a filled BUY leaves for the symbol
BuyPosition(positions, symbol, quantity, price) ==
    LET cost == quantity * price
    IN  IF symbol \in DOMAIN positions
        THEN LET total_quantity == positions[symbol].quantity + quantity
                 total_cost == RatAdd(positions[symbol].cost, RatInt(cost))
             IN  [quantity |-> total_quantity,
                  avg_price |-> Rat(total_cost[1], total_cost[2] * total_quantity),
                  cost |-> total_cost]
        ELSE [quantity |-> quantity,
              avg_price |-> RatInt(price),
              cost |-> RatInt(cost)]

\* variant: the requested quantity is sold without the clamp
QuantityToSell_unclamped(quantity, held) == quantity

\* min(quantity, self.positions[symbol]['quantity'])
QuantityToSell(quantity, held) == IF quantity < held THEN quantity ELSE held

\* variant: a SELL leaves the position's cost as it was
SellPositions_keep_cost(positions, symbol, quantity_to_sell) ==
    LET old == positions[symbol]
        new == [old EXCEPT !.quantity = old.quantity - quantity_to_sell]
    IN  IF new.quantity <= 0
        THEN [s \in DOMAIN positions \ {symbol} |-> positions[s]]
        ELSE [positions EXCEPT ![symbol] = new]

\* variant: a SELL never deletes the entry
SellPositions_keep_entry(positions, symbol, quantity_to_sell) ==
    LET old == positions[symbol]
    IN  [positions EXCEPT ![symbol] =
            [quantity |-> old.quantity - quantity_to_sell,
             avg_price |-> old.avg_price,
             cost |-> RatSub(old.cost, RatMulInt(old.avg_price, quantity_to_sell))]]

\* the positions map a SELL of quantity_to_sell leaves
SellPositions(positions, symbol, quantity_to_sell) ==
    LET old == positions[symbol]
        new == [quantity |-> old.quantity - quantity_to_sell,
                avg_price |-> old.avg_price,
                cost |-> RatSub(old.cost, RatMulInt(old.avg_price, quantity_to_sell))]
    IN  IF new.quantity <= 0
        THEN [s \in DOMAIN positions \ {symbol} |-> positions[s]]
        ELSE [positions EXCEPT ![symbol] = new]

\* execute_trade(symbol, action, quantity, price, date) on the ledger
\* L = [current_capital, positions, trade_history]; the ledger it leaves.
execute_trade(L, symbol, action, quantity, price, date) ==
    IF action = "BUY"
    THEN LET cost == quantity * price
         IN  IF CanAfford(cost, L.current_capital)
             THEN LET positions == [s \in DOMAIN L.positions \cup {symbol} |->
                                      IF s = symbol
                                      THEN BuyPosition(L.positions, symbol, quantity, price)
                                      ELSE L.positions[s]]
                      cash == L.current_capital - cost
                  IN  [current_capital |-> cash,
                       positions |-> positions,
                       trade_history |-> RecordTrade(L.trade_history,
                           [date |-> date, symbol |-> symbol, action |-> action,
                            quantity |-> quantity, price |-> price, cost |-> cost,
                            portfolio_value |->
                                get_portfolio_value(cash, positions, price, symbol)])]
             ELSE L
    ELSE IF action = "SELL" /\ symbol \in DOMAIN L.positions
    THEN LET quantity_to_sell == QuantityToSell(quantity, L.positions[symbol].quantity)
             revenue == quantity_to_sell * price
             positions == SellPositions(L.positions, symbol, quantity_to_sell)
             cash == L.current_capital + revenue
         IN  [current_capital |-> cash,
              positions |-> positions,
              trade_history |-> RecordTrade(L.trade_history,
                  [date |-> date, symbol |-> symbol, action |-> action,
                   quantity |-> quantity_to_sell, price |-> price, revenue |-> revenue,
                   portfolio_value |->
                       get_portfolio_value(cash, positions, price, symbol)])]
    ELSE L

\* variant: a BUY spends a tenth of the cash, not a fifth
calculate_position_size_tenth(cash, price) ==
    IF price > 0 THEN cash \div (price * 10) ELSE 0

\* variant: a size that rounds to zero is raised to one share
calculate_position_size_min1(cash, price) ==
    IF price > 0
    THEN IF (cash * 2) \div (price * 10) = 0 THEN 1 ELSE (cash * 2) \div (price * 10)
    ELSE 0

\* calculate_position_size(price): int(current_capital * 0.2 / price)
calculate_position_size(cash, price) ==
    IF price > 0 THEN (cash * 2) \div (price * 10) ELSE 0

\* ---------------------------------------------------------- strategies
\* self.last_price = None
None == 0

\* a signal dict: every strategy of the source sets symbol to its own symbol
\* and price to the bar's close
Signal(strategy, action, row) ==
    [symbol |-> strategy.symbol, action |-> action, price |-> row.Close]

\* all sequences over S of length at most n
SeqsUpTo(S, n) == UNION {[1..k -> S] : k \in 0..n}

\* PandasStrategy.generate_signals: the contract a strategy object satisfies.
\* Any strategy returns a list of signals; the outcomes are the lists of at
\* most MaxSignals BUY/SELL signals, the strategy's memory unchanged.
PandasStrategy_generate_signals(strategy, row) ==
    {[signals |-> [k \in DOMAIN acts |-> Signal(strategy, acts[k], row)],
      strategy |-> strategy] : acts \in SeqsUpTo({"BUY", "SELL"}, MaxSignals)}

\* variant: last_price is only set on the first bar and on a bar with a signal
ScalpingStrategy_generate_signals_on_signal(strategy, row) ==
    IF strategy.last_price = None
    THEN {[signals |-> <<>>,
           strategy |-> [strategy EXCEPT !.last_price = row.Close]]}
    ELSE LET diff == row.Close - strategy.last_price
             out == IF diff * 1000 > 5 * strategy.last_price
                    THEN <<Signal(strategy, "BUY", row)>>
                    ELSE IF diff * 1000 < -5 * strategy.last_price
                    THEN <<Signal(strategy, "SELL", row)>>
                    ELSE <<>>
         IN  {[signals |-> out,
               strategy |-> IF out = <<>> THEN strategy
                            ELSE [strategy EXCEPT !.last_price = row.Close]]}

\* ScalpingStrategy.generate_signals
ScalpingStrategy_generate_signals(strategy, row) ==
    IF strategy.last_price = None
    THEN {[signals |-> <<>>,
           strategy |-> [strategy EXCEPT !.last_price = row.Close]]}
    ELSE LET diff == row.Close - strategy.last_price
             \* price_change = diff / last_price, compared with 0.005 = 5/1000
             up == diff * 1000 > 5 * strategy.last_price
             down == diff * 1000 < -5 * strategy.last_price
             out == IF up THEN <<Signal(strategy, "BUY", row)>>
                    ELSE IF down THEN <<Signal(strategy, "SELL", row)>>
                    ELSE <<>>
         IN  {[signals |-> out,
               strategy |-> [strategy EXCEPT !.last_price = row.Close]]}

\* ---------------------------------------------- the strategy variants
\* the comparisons of floats: every comparison with NaN is false
FLess(x, y) ==
    IF x = NaNF \/ y = NaNF THEN FALSE
    ELSE IF x = NegInf THEN y # NegInf
    ELSE IF y = PosInf THEN x # PosInf
    ELSE IF x = PosInf \/ y = NegInf THEN FALSE
    ELSE x[1] * y[2] < y[1] * x[2]
FLeq(x, y) == x # NaNF /\ y # NaNF /\ (x = y \/ FLess(x, y))

\* the list returned unchanged, the strategy's memory untouched
NoSignals(strategy) == {[signals |-> <<>>, strategy |-> strategy]}

\* variant: two separate `if` statements
BuyElseSell_both(buy, sell, strategy, row) ==
    (IF buy THEN <<Signal(strategy, "BUY", row)>> ELSE <<>>)
        \o (IF sell THEN <<Signal(strategy, "SELL", row)>> ELSE <<>>)
\* if <buy>: signals.append(BUY ...)  elif <sell>: signals.append(SELL ...)
BuyElseSell(buy, sell, strategy, row) ==
    IF buy THEN <<Signal(strategy, "BUY", row)>>
    ELSE IF sell THEN <<Signal(strategy, "SELL", row)>>
    ELSE <<>>

\* current_signal = 'BUY' if data['SMA_10'] > data['SMA_30'] else 'SELL'
current_signal(row) == IF row.SMA_10 > row.SMA_30 THEN "BUY" ELSE "SELL"

\* variant: a signal on every bar with both averages
DirectionChanged_always(strategy, direction) == TRUE
\* self.last_signal != current_signal
DirectionChanged(strategy, direction) == strategy.last_signal # direction

\* MovingAverageCrossoverStrategy.generate_signals
MovingAverageCrossoverStrategy_generate_signals(strategy, row) ==
    IF pd_isna(row.SMA_10) \/ pd_isna(row.SMA_30)
    THEN NoSignals(strategy)
    ELSE IF DirectionChanged(strategy, current_signal(row))
    THEN {[signals |-> <<Signal(strategy, current_signal(row), row)>>,
           strategy |-> [strategy EXCEPT !.last_signal = current_signal(row)]]}
    ELSE NoSignals(strategy)

\* MovingAverageCrossover.calculate_signals of trading_strategies.py: the
\* 'signal' it gives for a pair of averages
MovingAverageCrossover_signal(short_ma, long_ma) ==
    IF short_ma > long_ma THEN "BUY"
    ELSE IF short_ma < long_ma THEN "SELL"
    ELSE "HOLD"

\* a column the row does not have
Absent == -2

\* MomentumStrategy.generate_signals
MomentumStrategy_generate_signals(strategy, row) ==
    IF row.Volume # Absent /\ ~pd_isna(row.Volume)
    THEN LET price_momentum == FDiv(RatInt(row.Close - row.Open), RatInt(row.Open))
         IN  {[signals |-> BuyElseSell(FLess(Rat(2, 100), price_momentum),
                                       FLess(price_momentum, Rat(-2, 100)),
                                       strategy, row),
               strategy |-> strategy]}
    ELSE NoSignals(strategy)

\* MeanReversionStrategy.generate_signals
MeanReversionStrategy_generate_signals(strategy, row) ==
    IF ~pd_isna(row.SMA_30)
    THEN LET deviation == FDiv(RatInt(row.Close - row.SMA_30), RatInt(row.SMA_30))
         IN  {[signals |-> BuyElseSell(FLess(deviation, Rat(-5, 100)),
                                       FLess(Rat(5, 100), deviation),
                                       strategy, row),
               strategy |-> strategy]}
    ELSE NoSignals(strategy)

\* bb_position = (Close - BB_Lower) / (BB_Upper - BB_Lower)
bb_position(row) ==
    FDiv(RatInt(row.Close - row.BB_Lower), RatInt(row.BB_Upper - row.BB_Lower))

\* variant: the positions 0.1 and 0.9 themselves give no signal
NearBand_strict(x, y) == FLess(x, y)
\* bb_position <= 0.1, bb_position >= 0.9
NearBand(x, y) == FLeq(x, y)

\* BollingerBandsStrategy.generate_signals
BollingerBandsStrategy_generate_signals(strategy, row) ==
    IF pd_isna(row.BB_Upper) \/ pd_isna(row.BB_Lower) \/ pd_isna(row.BB_Middle)
    THEN NoSignals(strategy)
    ELSE {[signals |-> BuyElseSell(NearBand(bb_position(row), Rat(1, 10)),
                                   NearBand(Rat(9, 10), bb_position(row)),
                                   strategy, row),
           strategy |-> strategy]}

\* RSIStrategy.generate_signals
RSIStrategy_generate_signals(strategy, row) ==
    IF pd_isna(row.RSI)
    THEN NoSignals(strategy)
    ELSE {[signals |-> BuyElseSell(row.RSI <= strategy.oversold,
                                   row.RSI >= strategy.overbought,
                                   strategy, row),
           strategy |-> strategy]}

\* hasattr(self, 'recent_high') and hasattr(self, 'recent_low')
HasRange(strategy) == strategy.recent_high # None /\ strategy.recent_low # None

\* the signals of BreakoutStrategy.generate_signals: Close > recent_high * 1.01,
\* Close < recent_low * 0.99, in hundredths
BreakoutSignals(strategy, row) ==
    IF HasRange(strategy)
    THEN BuyElseSell(row.Close * 100 > strategy.recent_high * 101,
                     row.Close * 100 < strategy.recent_low * 99,
                     strategy, row)
    ELSE <<>>

\* the update of recent_high and recent_low at the end of generate_signals
UpdateRange(strategy, row) ==
    [strategy EXCEPT
        !.recent_high = IF strategy.recent_high = None \/ row.High > strategy.recent_high
                        THEN row.High ELSE strategy.recent_high,
        !.recent_low = IF strategy.recent_low = None \/ row.Low < strategy.recent_low
                       THEN row.Low ELSE strategy.recent_low]

\* variant: the range is only updated on a bar without a signal
BreakoutStrategy_generate_signals_on_quiet_bars(strategy, row) ==
    {[signals |-> BreakoutSignals(strategy, row),
      strategy |-> IF BreakoutSignals(strategy, row) = <<>>
                   THEN UpdateRange(strategy, row) ELSE strategy]}
\* BreakoutStrategy.generate_signals
BreakoutStrategy_generate_signals(strategy, row) ==
    {[signals |-> BreakoutSignals(strategy, row),
      strategy |-> UpdateRange(strategy, row)]}

\* a strategy object of any other subclass: it may return a signal for any
\* symbol and with any action string, here at most one per call
SignalActions == {"BUY", "SELL", "HOLD"}
AnyStrategy_generate_signals(strategy, row) ==
    {[signals |-> <<>>, strategy |-> strategy]}
        \cup {[signals |-> <<[symbol |-> sym, action |-> act, price |-> row.Close]>>,
               strategy |-> strategy] : sym \in Symbols, act \in SignalActions}

\* strategy.generate_signals(row): the possible (signals, strategy memory) outcomes
generate_signals(strategy, row) ==
    CASE strategy.kind = "Scalping" -> ScalpingStrategy_generate_signals(strategy, row)
      [] strategy.kind = "MovingAverageCrossover" ->
            MovingAverageCrossoverStrategy_generate_signals(strategy, row)
      [] strategy.kind = "Momentum" -> MomentumStrategy_generate_signals(strategy, row)
      [] strategy.kind = "MeanReversion" -> MeanReversionStrategy_generate_signals(strategy, row)
      [] strategy.kind = "BollingerBands" -> BollingerBandsStrategy_generate_signals(strategy, row)
      [] strategy.kind = "RSI" -> RSIStrategy_generate_signals(strategy, row)
      [] strategy.kind = "Breakout" -> BreakoutStrategy_generate_signals(strategy, row)
      [] strategy.kind = "Any" -> AnyStrategy_generate_signals(strategy, row)
      [] OTHER -> PandasStrategy_generate_signals(strategy, row)

\* a newly constructed strategy object
NewStrategies ==
    [kind : {"Generic", "Scalping"}, symbol : Symbols, last_price : {None}]

\* ---------------------------------------------------------------- data
\* a row of the price series; its date is its index in the series. The series
\* comes from the data provider: the model learns a row when the loop reaches
\* it, and the series ends after any row from the first to the MaxBars-th.
Bars == [Close : Closes]

\* -------------------------------------------------------------- state
VARIABLES
    initial_capital,    \* self.initial_capital
    current_capital,    \* self.current_capital (cash)
    positions,          \* self.positions: symbol -> [quantity, avg_price, cost]
    trade_history,      \* self.trade_history
    portfolio_values,   \* self.portfolio_values (the equity curve)
    pc,                 \* where the engine is: READY, RUNNING, SIGNALS, COMPLETE, FAILED
    run,                \* the running call's symbol, data and bar index i
    strategy,           \* the strategy object passed to run_backtest, with its memory
    signals,            \* the signals of the current bar not yet handled
    result,             \* what the last run_backtest returned
    last,               \* the last execute_trade call: its arguments and the ledger before it
    signal_log,         \* the signals handled in this run, each with the ledger facts before it
    ncalls,             \* execute_trade calls made directly on the engine
    trader              \* the live trader: AlgoTrader with its IBConnection and IBClient

vars == <<initial_capital, current_capital, positions, trade_history,
          portfolio_values, pc, run, strategy, signals, result, last, signal_log, ncalls,
          trader>>

Ledger == [current_capital |-> current_capital, positions |-> positions,
           trade_history |-> trade_history]

NoCall == [op |-> "none"]
\* no earlier run is being repeated
NoPrev == [kind |-> "none"]
\* the locals of a run_backtest call: symbol, data, the loop index i, whether
\* the fetched series was empty, the initial_capital argument, and as
\* bookkeeping the number of generate_signals calls made, the list the last
\* of them returned, the outcome of the run being repeated (if any), whether
\* another call has touched the engine meanwhile, and the strategy name of the
\* web request that made the call (if one did)
NoRun == [symbol |-> "none", data |-> <<>>, i |-> 0, empty |-> TRUE, capital |-> 0,
          calls |-> 0, emitted |-> <<>>, prev |-> NoPrev, shared |-> FALSE,
          strategy_name |-> "none"]
NoStrategy == [kind |-> "none", symbol |-> "none", last_price |-> None]
NoResult == [kind |-> "none"]

\* the record of an execute_trade call and of the ledger it found
CallRecord(symbol, action, quantity, price, date) ==
    [op |-> "execute_trade", symbol |-> symbol, action |-> action,
     quantity |-> quantity, price |-> price, date |-> date,
     cash |-> current_capital, positions |-> positions,
     trade_history |-> trade_history]

\* BacktestEngine.__init__(initial_capital)
\* an empty dict
NoEntries == [k \in {} |-> 0]
\* None as an order id, and as the orderId a thread has not read yet
NoOrderId == 0

\* the position of a thread that is not inside place_order
Idle == [pc |-> "idle", orderId |-> NoOrderId, loaded |-> NoOrderId,
         symbol |-> "", action |-> "", quantity |-> 0]

\* AlgoTrader() after construction: AlgoTrader.__init__, IBConnection.__init__
\* and IBClient.__init__, and a strategy manager with no price seen
NoTrader ==
    [watchlist |-> <<>>, symbol_to_reqid |-> NoEntries, reqid_to_symbol |-> NoEntries,
     data |-> NoEntries, connected |-> FALSE, next_order_id |-> NoOrderId,
     trading_enabled |-> FALSE, ib_positions |-> NoEntries, placed |-> <<>>,
     trade_history |-> <<>>, price_history |-> NoEntries,
     threads |-> [t \in {"scheduler", "request"} |-> Idle], runs |-> 0,
     last_run |-> <<>>]

Init ==
    /\ initial_capital \in Capitals
    /\ current_capital = initial_capital
    /\ positions = NoPositions
    /\ trade_history = <<>>
    /\ portfolio_values = <<>>
    /\ pc = "READY"
    /\ run = NoRun
    /\ strategy = NoStrategy
    /\ signals = <<>>
    /\ result = NoResult
    /\ last = NoCall
    /\ signal_log = <<>>
    /\ ncalls = 0
    /\ trader = NoTrader

\* a direct call engine.execute_trade(symbol, action, quantity, price, date)
\* on an engine that is not inside run_backtest
ExecuteTradeCall ==
    /\ pc = "READY"
    /\ ncalls < MaxCalls
    /\ \E symbol \in Symbols, action \in {"BUY", "SELL"},
          quantity \in 1..MaxQty, price \in Prices :
         LET L == execute_trade(Ledger, symbol, action, quantity, price, 0)
         IN  /\ current_capital' = L.current_capital
             /\ positions' = L.positions
             /\ trade_history' = L.trade_history
             /\ last' = CallRecord(symbol, action, quantity, price, 0)
    /\ ncalls' = ncalls + 1
    /\ UNCHANGED <<trader, initial_capital, portfolio_values, pc, run, strategy, signals, result,
                   signal_log>>

\* run_backtest(strategy, symbol, start_date, end_date, initial_capital):
\* the reset, the fetch of the series and the empty check (lines 139-148);
\* run.data holds the rows of the series the loop has reached
\* variant: the reset forgets `self.positions = {}`
ResetLedger_keep_positions(capital) ==
    [current_capital |-> capital, positions |-> positions,
     trade_history |-> <<>>, portfolio_values |-> <<>>]
\* the reset at the head of run_backtest (lines 139-143)
ResetLedger(capital) ==
    [current_capital |-> capital, positions |-> NoPositions,
     trade_history |-> <<>>, portfolio_values |-> <<>>]

\* variant: the empty check is missing
data_empty_never(empty) == FALSE
\* `if data.empty` (line 147)
data_empty(empty) == empty

\* the head of run_backtest for given arguments and a given fetch outcome
StartRun(symbol, empty, capital, strat, prev, strategy_name) ==
    /\ initial_capital' = capital
    /\ LET R == ResetLedger(capital)
       IN  /\ current_capital' = R.current_capital
           /\ positions' = R.positions
           /\ trade_history' = R.trade_history
           /\ portfolio_values' = R.portfolio_values
    /\ run' = [symbol |-> symbol, data |-> <<>>, i |-> 0, empty |-> empty,
               capital |-> capital, calls |-> 0, emitted |-> <<>>, prev |-> prev,
               shared |-> FALSE, strategy_name |-> strategy_name]
    /\ strategy' = strat
    /\ IF data_empty(empty)
       THEN /\ pc' = "FAILED"
            /\ result' = [kind |-> "error", error |-> "No data available"]
       ELSE /\ pc' = "RUNNING"
            /\ result' = NoResult
    /\ signals' = <<>>
    /\ last' = NoCall
    /\ signal_log' = <<>>
    /\ ncalls' = 0
    /\ UNCHANGED trader

\* the strategy objects a caller can pass: a new one, or the one it used before
PassedStrategies == NewStrategies \cup (IF strategy = NoStrategy THEN {} ELSE {strategy})

RunBacktest ==
    /\ pc \in {"READY", "COMPLETE", "FAILED"}
    /\ \E symbol \in RunSymbols, empty \in BOOLEAN, capital \in Capitals,
          strat \in PassedStrategies :
         StartRun(symbol, empty, capital, strat, NoPrev, "none")

\* the row the loop is at, and the date iterrows gives the i-th row
Row == run.data[run.i]
\* variant: the rows are dated from the end of the range backwards
BarDate_reversed(i) == MaxBars + 1 - i
BarDate(i) == i

\* one step of `for date, row in data.iterrows()`: a row with an undefined
\* close is skipped, otherwise the strategy is asked for its signals
\* the length of the series is not known before its end, unless the run
\* repeats an earlier one over the same series
Repeating == run.prev.kind # "none"
MoreRows == IF Repeating THEN run.i < Len(run.prev.data) ELSE run.i < MaxBars
NextRows == IF Repeating THEN {run.prev.data[run.i + 1]} ELSE Bars

\* variant: the signals of a bar are handled last first
SignalOrder_reversed(sigs) == [k \in 1..Len(sigs) |-> sigs[Len(sigs) + 1 - k]]
\* `for signal in signals` takes the list in its order (line 159)
SignalOrder(sigs) == sigs

NextBar ==
    /\ pc = "RUNNING"
    /\ MoreRows
    /\ \E row \in NextRows :
         IF pd_isna(row.Close)
         THEN /\ run' = [run EXCEPT !.i = run.i + 1, !.data = Append(run.data, row),
                                    !.emitted = <<>>]
              /\ UNCHANGED <<pc, strategy, signals>>
         ELSE \E out \in generate_signals(strategy, row) :
                  /\ run' = [run EXCEPT !.i = run.i + 1, !.data = Append(run.data, row),
                                        !.calls = run.calls + 1,
                                        !.emitted = out.signals]
                  /\ signals' = SignalOrder(out.signals)
                  /\ strategy' = out.strategy
                  /\ pc' = "SIGNALS"
    /\ UNCHANGED <<trader, initial_capital, current_capital, positions, trade_history,
                   portfolio_values, result, last, signal_log, ncalls>>

\* variant: the symbol of the signal is not looked at
SignalCall_any_symbol(signal) ==
    IF signal.action = "BUY"
    THEN LET quantity == calculate_position_size(current_capital, signal.price)
         IN  IF quantity > 0
             THEN [call |-> TRUE, action |-> "BUY", quantity |-> quantity]
             ELSE [call |-> FALSE]
    ELSE IF signal.action = "SELL"
    THEN IF run.symbol \in DOMAIN positions
         THEN [call |-> TRUE, action |-> "SELL",
               quantity |-> positions[run.symbol].quantity]
         ELSE [call |-> FALSE]
    ELSE [call |-> FALSE]

\* what the body of `for signal in signals` does with one signal: the
\* execute_trade call it makes, if any
SignalCall(signal) ==
    IF signal.action = "BUY" /\ signal.symbol = run.symbol
    THEN LET quantity == calculate_position_size(current_capital, signal.price)
         IN  IF quantity > 0
             THEN [call |-> TRUE, action |-> "BUY", quantity |-> quantity]
             ELSE [call |-> FALSE]
    ELSE IF signal.action = "SELL" /\ signal.symbol = run.symbol
    THEN IF run.symbol \in DOMAIN positions
         THEN [call |-> TRUE, action |-> "SELL",
               quantity |-> positions[run.symbol].quantity]
         ELSE [call |-> FALSE]
    ELSE [call |-> FALSE]

\* the quantity of the symbol the ledger holds (0 when it has no entry)
Held(pos, symbol) == IF symbol \in DOMAIN pos THEN pos[symbol].quantity ELSE 0

\* one iteration of `for signal in signals` (lines 159-168)
HandleSignal ==
    /\ pc = "SIGNALS"
    /\ signals # <<>>
    /\ LET signal == Head(signals)
           c == SignalCall(signal)
       IN  /\ IF c.call
              THEN LET L == execute_trade(Ledger, run.symbol, c.action, c.quantity,
                                          signal.price, BarDate(run.i))
                   IN  /\ current_capital' = L.current_capital
                       /\ positions' = L.positions
                       /\ trade_history' = L.trade_history
                       /\ last' = CallRecord(run.symbol, c.action, c.quantity,
                                             signal.price, BarDate(run.i))
              ELSE UNCHANGED <<current_capital, positions, trade_history, last>>
           /\ signal_log' = Append(signal_log,
                  [date |-> BarDate(run.i), symbol |-> signal.symbol,
                   action |-> signal.action,
                   price |-> signal.price, cash |-> current_capital,
                   held |-> Held(positions, run.symbol),
                   positions |-> positions, trades |-> Len(trade_history)])
    /\ signals' = Tail(signals)
    /\ UNCHANGED <<trader, initial_capital, portfolio_values, pc, run, strategy, result, ncalls>>

\* the record of the bar's portfolio value (lines 170-176)
RecordValue ==
    /\ pc = "SIGNALS"
    /\ signals = <<>>
    /\ portfolio_values' = Append(portfolio_values,
           [date |-> BarDate(run.i),
            portfolio_value |->
                get_portfolio_value(current_capital, positions, Row.Close, run.symbol),
            price |-> Row.Close])
    /\ pc' = "RUNNING"
    /\ UNCHANGED <<trader, initial_capital, current_capital, positions, trade_history, run,
                   strategy, signals, result, last, signal_log, ncalls>>

\* the column df_values['portfolio_value'] of an equity curve
ValueColumn(curve) == [t \in 1..Len(curve) |-> curve[t].portfolio_value]

\* the largest and the smallest of the first t entries of a series
RECURSIVE ExpandingMax(_, _)
ExpandingMax(values, t) ==
    IF t = 1 THEN values[1]
    ELSE LET m == ExpandingMax(values, t - 1)
         IN  IF RatLeq(m, values[t]) THEN values[t] ELSE m
RECURSIVE ExpandingMin(_, _)
ExpandingMin(values, t) ==
    IF t = 1 THEN values[1]
    ELSE LET m == ExpandingMin(values, t - 1)
         IN  IF RatLeq(values[t], m) THEN values[t] ELSE m

\* Series.min(): the smallest entry that is a number, NaN if there is none
NanMin(series) ==
    LET valid == SelectSeq(series, LAMBDA x : x # NaNF)
    IN  IF valid = <<>> THEN NaNF ELSE ExpandingMin(valid, Len(valid))

\* variant: the peak is the maximum of the whole series, not the running one
calculate_max_drawdown_whole_peak(values) ==
    LET peak == ExpandingMax(values, Len(values))
        drawdown == [t \in 1..Len(values) |->
                        FDiv(FSub(values[t], peak), peak)]
    IN  NanMin(drawdown)

\* calculate_max_drawdown(portfolio_values):
\* peak = expanding().max(); drawdown = (values - peak) / peak; drawdown.min()
calculate_max_drawdown(values) ==
    LET peak == [t \in 1..Len(values) |-> ExpandingMax(values, t)]
        drawdown == [t \in 1..Len(values) |->
                        FDiv(FSub(values[t], peak[t]), peak[t])]
    IN  NanMin(drawdown)

\* a metric that is not a plain fraction is kept as the expression that
\* gives it: 0.0, NaN, infinity, base ** exponent - 1, or
\* mean(returns) / std(returns) * sqrt(252); Raises is the ZeroDivisionError
\* of a Python division
Zero == [kind |-> "zero"]
NotANumber == [kind |-> "nan"]
Infinite == [kind |-> "inf"]
Raises == [kind |-> "raise"]

DaysPerYear == 365

\* (1 + total_return) ** (365 / days) - 1 (lines 224-225)
AnnualizedPower(curve, initial, days) ==
    LET final == curve[Len(curve)].portfolio_value
        total_return == FSub(FDiv(final, RatInt(initial)), RatInt(1))
        base == FAdd(RatInt(1), total_return)
    IN  IF days = 0 THEN Raises
        ELSE IF ~IsNumber(base) THEN NotANumber
        ELSE [kind |-> "pow", base |-> base, exponent |-> Rat(DaysPerYear, days)]

\* the whole part of log2(n / d), for n / d >= 1
RECURSIVE Log2Floor(_, _)
Log2Floor(n, d) == IF n < 2 * d THEN 0 ELSE 1 + Log2Floor(n, 2 * d)

\* a float64 holds magnitudes below 2^1024; a numpy power beyond that is inf
\* (a warning, no exception)
FloatMaxExponent == 1024

\* base ** exponent is beyond the float range: exponent * log2(base) >= 1024.
\* The logarithm is taken by its whole part, which is exact for the bases
\* that are powers of two and under-reports overflow for the others.
Overflows(x) ==
    /\ x.kind = "pow"
    /\ x.base[1] >= x.base[2]
    /\ x.exponent[1] * Log2Floor(x.base[1], x.base[2]) >= FloatMaxExponent * x.exponent[2]

\* (df_values.index[-1] - df_values.index[0]).days
ElapsedDays(curve) == curve[Len(curve)].date - curve[1].date

\* variant: the guard for zero elapsed days is missing
calculate_annualized_return_no_days_guard(curve, initial) ==
    IF Len(curve) < 2 THEN Zero
    ELSE AnnualizedPower(curve, initial, ElapsedDays(curve))

\* calculate_annualized_return(df_values)
calculate_annualized_return(curve, initial) ==
    IF Len(curve) < 2 THEN Zero
    ELSE IF ElapsedDays(curve) = 0 THEN Zero
    ELSE AnnualizedPower(curve, initial, ElapsedDays(curve))

\* df_values['portfolio_value'].pct_change(): the first entry is NaN
pct_change(values) ==
    [t \in 1..Len(values) |->
        IF t = 1 THEN NaNF
        ELSE FDiv(FSub(values[t], values[t - 1]), values[t - 1])]

\* all entries of a non-empty series are the same number
Constant(series) == \A t \in 1..Len(series) : series[t] = series[1]

\* variant: the guard for a zero standard deviation is missing
calculate_sharpe_ratio_unguarded(returns) ==
    IF Len(returns) < 2 THEN Zero
    ELSE LET valid == SelectSeq(returns, LAMBDA r : r # NaNF)
         IN  IF Len(valid) = 0 THEN Zero
             ELSE IF Len(valid) = 1 THEN NotANumber
             ELSE IF Constant(valid)
             THEN (IF valid[1][1] = 0 THEN NotANumber ELSE Infinite)
             ELSE [kind |-> "ratio", returns |-> valid]

\* calculate_sharpe_ratio(returns): the sample standard deviation of a single
\* return is NaN, that of equal returns is 0
calculate_sharpe_ratio(returns) ==
    IF Len(returns) < 2 THEN Zero
    ELSE LET valid == SelectSeq(returns, LAMBDA r : r # NaNF)
         IN  IF Len(valid) = 0 THEN Zero
             ELSE IF Len(valid) = 1 THEN NotANumber
             ELSE IF Constant(valid) THEN Zero
             ELSE [kind |-> "ratio", returns |-> valid]

\* variant: the metrics are returned as computed
NormaliseMetrics_none(m) == m
\* `float(x) if not pd.isna(x) else 0.0` for the four metrics (lines 204-207)
NormaliseMetrics(m) ==
    [total_return |-> IF m.total_return = NaNF THEN RatInt(0) ELSE m.total_return,
     annualized_return |->
         IF m.annualized_return = NotANumber THEN Zero ELSE m.annualized_return,
     sharpe_ratio |-> IF m.sharpe_ratio = NotANumber THEN Zero ELSE m.sharpe_ratio,
     max_drawdown |-> IF m.max_drawdown = NaNF THEN RatInt(0) ELSE m.max_drawdown]

\* the metrics of a non-empty equity curve as computed (lines 194-201)
RawMetrics(curve, initial) ==
    [total_return |->
         FDiv(FSub(curve[Len(curve)].portfolio_value, RatInt(initial)), RatInt(initial)),
     annualized_return |-> calculate_annualized_return(curve, initial),
     sharpe_ratio |-> calculate_sharpe_ratio(pct_change(ValueColumn(curve))),
     max_drawdown |-> calculate_max_drawdown(ValueColumn(curve))]

\* the dict of a non-empty equity curve (lines 203-213)
Report(curve, initial, trades) ==
    LET m == NormaliseMetrics(RawMetrics(curve, initial))
    IN  [kind |-> "report",
         total_return |-> m.total_return,
         annualized_return |-> m.annualized_return,
         sharpe_ratio |-> m.sharpe_ratio,
         max_drawdown |-> m.max_drawdown,
         final_portfolio_value |-> curve[Len(curve)].portfolio_value,
         initial_capital |-> initial,
         total_trades |-> Len(trades),
         portfolio_values |-> curve,
         trade_history |-> trades]

\* variant: the guard for an empty equity curve is missing
calculate_performance_metrics_unguarded ==
    IF portfolio_values = <<>>
    THEN [kind |-> "report",
          total_return |-> RatInt(0), annualized_return |-> Zero,
          sharpe_ratio |-> Zero, max_drawdown |-> RatInt(0),
          final_portfolio_value |-> RatInt(current_capital),
          initial_capital |-> initial_capital,
          total_trades |-> Len(trade_history),
          portfolio_values |-> portfolio_values,
          trade_history |-> trade_history]
    ELSE Report(portfolio_values, initial_capital, trade_history)

\* calculate_performance_metrics(data): the dict run_backtest returns
calculate_performance_metrics ==
    IF portfolio_values = <<>>
    THEN [kind |-> "error", error |-> "No portfolio values recorded"]
    ELSE Report(portfolio_values, initial_capital, trade_history)

\* the loop is over: return self.calculate_performance_metrics(data) (line 178)
Finish ==
    /\ pc = "RUNNING"
    /\ IF Repeating THEN ~MoreRows ELSE run.i >= 1
    /\ result' = calculate_performance_metrics
    /\ pc' = IF result'.kind = "error" THEN "FAILED" ELSE "COMPLETE"
    /\ UNCHANGED <<trader, initial_capital, current_capital, positions, trade_history,
                   portfolio_values, run, strategy, signals, last, signal_log, ncalls>>

Next ==
    \/ ExecuteTradeCall
    \/ RunBacktest
    \/ NextBar
    \/ HandleSignal
    \/ RecordValue
    \/ Finish

Spec == Init /\ [][Next]_vars

\* ------------------------------------------------------------ helpers
Last(seq) == seq[Len(seq)]
Min(a, b) == IF a < b THEN a ELSE b
IsPrefix(s, t) == Len(s) <= Len(t) /\ \A k \in 1..Len(s) : s[k] = t[k]

\* the last execute_trade call, by its arguments and the ledger it found
Called == last.op = "execute_trade"
CalledBuy == Called /\ last.action = "BUY"
\* a SELL of a symbol the ledger held
CalledSell == Called /\ last.action = "SELL" /\ last.symbol \in DOMAIN last.positions
\* the call recorded a trade
Filled == Called /\ Len(trade_history) = Len(last.trade_history) + 1
\* the engine is inside run_backtest, or has returned from its loop
InRun == pc \in {"RUNNING", "SIGNALS"}
AfterLoop == pc \in {"COMPLETE", "FAILED"} /\ ~run.empty

\* quantity x average cost summed over the held symbols other than `symbol`
RECURSIVE OthersAtCost(_, _, _)
OthersAtCost(pos, syms, symbol) ==
    IF syms = {} THEN <<0, 1>>
    ELSE LET s == CHOOSE x \in syms : TRUE
             rest == OthersAtCost(pos, syms \ {s}, symbol)
         IN  IF s = symbol THEN rest
             ELSE RatAdd(rest, Rat(pos[s].quantity * pos[s].avg_price[1],
                                   pos[s].avg_price[2]))

\* --------------------------------------------------------------- C1
\* C1: every EquityPoint run_backtest appends has portfolio_value = the cash at
\* that moment + (quantity held of the run's symbol x that bar's close) +, for
\* every other held symbol, quantity x average cost. The point just appended is
\* the last one, dated with the current row, while the engine is back at the
\* loop head.
JustRecorded ==
    /\ pc = "RUNNING"
    /\ portfolio_values # <<>>
    /\ Last(portfolio_values).date = run.i

C1_EquityPointIsCashPlusPositions ==
    JustRecorded =>
        LET pt == Last(portfolio_values)
            q == IF run.symbol \in DOMAIN positions
                 THEN positions[run.symbol].quantity ELSE 0
        IN  /\ pt.price = run.data[run.i].Close
            /\ pt.portfolio_value =
                   RatAdd(<<current_capital + q * pt.price, 1>>,
                          OthersAtCost(positions, DOMAIN positions, run.symbol))

\* an equity point recorded while the symbol is held at an average cost that
\* differs from the bar's close
C1_Witness ==
    /\ JustRecorded
    /\ run.symbol \in DOMAIN positions
    /\ positions[run.symbol].avg_price # <<Last(portfolio_values).price, 1>>

\* --------------------------------------------------------------- C2
\* C2: no position has a negative quantity after any sequence of execute_trade
\* calls, and a SELL sells min(requested, held): the recorded trade quantity and
\* the revenue use it, and the held quantity drops by it.
C2_SellClampedToHeld ==
    /\ \A s \in DOMAIN positions : positions[s].quantity >= 0
    /\ CalledSell =>
           LET held == last.positions[last.symbol].quantity
               sold == Min(last.quantity, held)
               t == Last(trade_history)
           IN  /\ Filled
               /\ t.action = "SELL" /\ t.symbol = last.symbol
               /\ t.quantity = sold
               /\ t.revenue = sold * last.price
               /\ current_capital = last.cash + sold * last.price
               /\ Held(positions, last.symbol) = held - sold

\* a SELL that asked for more than was held
C2_Witness ==
    /\ CalledSell
    /\ last.quantity > last.positions[last.symbol].quantity

\* --------------------------------------------------------------- C3
\* C3: a BUY whose quantity x price exceeds the cash changes nothing: cash,
\* positions and trade log are as before the call (no trade, no partial fill).
C3_UnaffordableBuyChangesNothing ==
    (CalledBuy /\ last.quantity * last.price > last.cash) =>
        /\ current_capital = last.cash
        /\ positions = last.positions
        /\ trade_history = last.trade_history

\* a BUY was called that the cash could not pay
C3_Witness ==
    /\ CalledBuy
    /\ last.quantity * last.price > last.cash
    /\ last.cash > 0

\* --------------------------------------------------------------- C4
\* C4: a filled BUY of q at p onto a position (Q, C) leaves quantity Q+q, total
\* cost C+q*p, average cost (C+q*p)/(Q+q), and cash reduced by q*p.
BuyOntoPosition == CalledBuy /\ Filled /\ last.symbol \in DOMAIN last.positions

C4_BuyAveragesCost ==
    BuyOntoPosition =>
        LET old == last.positions[last.symbol]
            q == last.quantity
            p == last.price
            C == RatAdd(old.cost, <<q * p, 1>>)
            new == positions[last.symbol]
        IN  /\ new.quantity = old.quantity + q
            /\ new.cost = C
            /\ new.avg_price = Rat(C[1], C[2] * (old.quantity + q))
            /\ current_capital = last.cash - q * p

\* a BUY onto a position at a price other than its average cost
C4_Witness ==
    /\ BuyOntoPosition
    /\ last.positions[last.symbol].avg_price # <<last.price, 1>>

\* --------------------------------------------------------------- C5
\* C5: a partial SELL (s < held) leaves the average cost unchanged, reduces the
\* total cost by s x average cost and adds s x fill price to the cash; a SELL
\* that brings the quantity to zero deletes the entry.
C5_SellKeepsAverageCost ==
    CalledSell =>
        LET old == last.positions[last.symbol]
            sold == Min(last.quantity, old.quantity)
        IN  /\ current_capital = last.cash + sold * last.price
            /\ IF sold < old.quantity
               THEN /\ last.symbol \in DOMAIN positions
                    /\ positions[last.symbol].avg_price = old.avg_price
                    /\ positions[last.symbol].cost =
                           RatSub(old.cost, Rat(sold * old.avg_price[1], old.avg_price[2]))
                    /\ positions[last.symbol].quantity = old.quantity - sold
               ELSE last.symbol \notin DOMAIN positions
            /\ \A s \in DOMAIN last.positions \ {last.symbol} :
                   s \in DOMAIN positions /\ positions[s] = last.positions[s]

\* a partial SELL
C5_Witness ==
    /\ CalledSell
    /\ last.quantity < last.positions[last.symbol].quantity

C7_TradeLogAppendOnly ==
    [][ (InRun \/ (pc = "READY" /\ pc' = "READY")) =>
            /\ IsPrefix(trade_history, trade_history')
            /\ Len(trade_history') <= Len(trade_history) + 1
            /\ (current_capital' # current_capital \/ positions' # positions) =>
                   Len(trade_history') = Len(trade_history) + 1 ]_vars

\* a run whose log has taken a second record after a first one
C7_Witness ==
    /\ InRun
    /\ Len(trade_history) >= 2
    /\ trade_history[1] # trade_history[2]

\* --------------------------------------------------------------- C8
\* the trade log of a run: the log while the engine is inside run_backtest or
\* has returned from its loop
RunLog == InRun \/ AfterLoop

\* the number of signals the strategy returned for the bar dated d
SignalsOfBar(d) == Cardinality({j \in DOMAIN signal_log : signal_log[j].date = d})

\* C8 as stated: consecutive trades of a run have strictly increasing dates (no
\* two trades share a bar).
C8_StrictlyIncreasingDates ==
    RunLog => \A k \in 1..(Len(trade_history) - 1) :
                  trade_history[k].date < trade_history[k + 1].date

\* C8 as amended: consecutive trades of a run have non-decreasing dates, and the
\* later date is strictly after the earlier one unless the strategy returned
\* more than one signal for that bar.
C8_TradeDatesOrdered ==
    RunLog => \A k \in 1..(Len(trade_history) - 1) :
                  /\ trade_history[k].date <= trade_history[k + 1].date
                  /\ trade_history[k].date = trade_history[k + 1].date =>
                         SignalsOfBar(trade_history[k].date) >= 2

\* two trades filled on one bar, and a third on a later bar
C8_Witness ==
    /\ RunLog
    /\ Len(trade_history) >= 3
    /\ trade_history[1].date = trade_history[2].date
    /\ trade_history[2].date < trade_history[3].date

\* --------------------------------------------------------------- C9
\* the size run_backtest gives a BUY signal handled with cash e.cash
SizedQuantity(e) == (2 * e.cash) \div (10 * e.price)

\* a handled signal is dropped, as C9 states it: a BUY sized to zero or not
\* affordable, or a SELL with no position held
DroppedAsStated(e) ==
    \/ e.action = "BUY" /\ (SizedQuantity(e) = 0 \/ SizedQuantity(e) * e.price > e.cash)
    \/ e.action = "SELL" /\ e.held = 0

\* ... and as amended: also a signal whose symbol is not the run's symbol
DroppedAsAmended(e) == e.symbol # run.symbol \/ DroppedAsStated(e)

\* every trade's date is the timestamp of a bar of the series, dates in
\* non-decreasing order
TradeDatesAreBarDates ==
    /\ \A k \in DOMAIN trade_history : trade_history[k].date \in 1..Len(run.data)
    /\ \A k \in 1..(Len(trade_history) - 1) :
           ~(trade_history[k + 1].date < trade_history[k].date)

\* C9 as stated: at the end of a run the trade log length (and total_trades)
\* equals the number of signals not dropped, dropped meaning only a BUY sized to
\* zero or not affordable or a SELL with no position; trade dates are bar
\* timestamps in non-decreasing order.
C9_TradesAreSignalsNotDroppedAsStated ==
    AfterLoop =>
        LET kept == {j \in DOMAIN signal_log : ~DroppedAsStated(signal_log[j])}
        IN  /\ Len(trade_history) = Cardinality(kept)
            /\ result.kind = "report" => result.total_trades = Cardinality(kept)
            /\ TradeDatesAreBarDates

\* C9 as amended: the same, a signal being dropped also when its symbol is not
\* the symbol of the run.
C9_TradesAreSignalsNotDropped ==
    AfterLoop =>
        LET kept == {j \in DOMAIN signal_log : ~DroppedAsAmended(signal_log[j])}
        IN  /\ Len(trade_history) = Cardinality(kept)
            /\ result.kind = "report" =>
                   /\ result.total_trades = Cardinality(kept)
                   /\ result.trade_history = trade_history
            /\ TradeDatesAreBarDates

\* a completed run with a trade, a BUY dropped for its size of zero and a SELL
\* dropped for want of a position
C9_Witness ==
    /\ pc = "COMPLETE"
    /\ strategy.symbol = run.symbol
    /\ Len(trade_history) >= 1
    /\ \E j \in DOMAIN signal_log :
           signal_log[j].action = "BUY" /\ SizedQuantity(signal_log[j]) = 0
    /\ \E j \in DOMAIN signal_log :
           signal_log[j].action = "SELL" /\ signal_log[j].held = 0

\* -------------------------------------------------------------- C10
\* C10: run_backtest appends exactly one EquityPoint for each bar whose close is
\* defined, in bar order, dated with the bar's timestamp and priced at its
\* close; a bar with an undefined close is skipped entirely: the strategy is
\* not called for it (no signal, no strategy memory of it), no trade is made
\* and no EquityPoint is recorded.
C10_OnePointPerDefinedBar ==
    RunLog =>
        LET done == IF pc = "SIGNALS" THEN run.i - 1 ELSE run.i
            defined == {k \in 1..done : run.data[k].Close # NaN}
        IN  /\ Len(portfolio_values) = Cardinality(defined)
            /\ \A j \in DOMAIN portfolio_values :
                   /\ portfolio_values[j].date \in defined
                   /\ portfolio_values[j].price = run.data[portfolio_values[j].date].Close
            /\ \A j \in 1..(Len(portfolio_values) - 1) :
                   portfolio_values[j].date < portfolio_values[j + 1].date
            /\ pc = "SIGNALS" => run.data[run.i].Close # NaN
            /\ \A j \in DOMAIN signal_log :
                   run.data[signal_log[j].date].Close # NaN
            /\ \A j \in DOMAIN trade_history :
                   run.data[trade_history[j].date].Close # NaN
            /\ strategy.last_price # NaN

\* a bar without a close was skipped and the next bar recorded
C10_Witness ==
    /\ pc = "RUNNING"
    /\ run.i = 2
    /\ run.data[1].Close = NaN
    /\ Len(portfolio_values) = 1
    /\ portfolio_values[1].date = 2

\* -------------------------------------------------------------- C11
\* C11: when the fetched series is empty, run_backtest returns the error
\* result "No data available" and nothing else: the strategy is never called,
\* no signal is handled, no EquityPoint and no trade is recorded, the ledger
\* stays as the reset left it, and the result is not a performance report.
C11_EmptySeriesOnlyError ==
    run.empty /\ run.symbol # "none" =>
        /\ pc = "FAILED"
        /\ result = [kind |-> "error", error |-> "No data available"]
        /\ run.calls = 0 /\ run.i = 0
        /\ signals = <<>> /\ signal_log = <<>>
        /\ portfolio_values = <<>>
        /\ trade_history = <<>>
        /\ positions = NoPositions
        /\ current_capital = run.capital

\* an empty series is met by an engine and a strategy that an earlier run used
C11_Witness ==
    /\ pc = "FAILED" /\ run.empty /\ run.symbol # "none"
    /\ strategy.kind = "Scalping" /\ strategy.last_price # None
    /\ result.kind = "error"

\* -------------------------------------------------------------- C12
\* C12: every run starts from a reset ledger whatever the engine did before:
\* when run_backtest has done its reset and fetch and stands before the first
\* bar (or has returned for an empty series), cash and initial_capital equal
\* the initial_capital argument, there are no positions, and the trade log and
\* the equity curve are empty.
RunStart == run.symbol # "none" /\ run.i = 0 /\ pc \in {"RUNNING", "FAILED"}

C12_RunStartsFromResetLedger ==
    RunStart =>
        /\ current_capital = run.capital
        /\ initial_capital = run.capital
        /\ positions = NoPositions
        /\ trade_history = <<>>
        /\ portfolio_values = <<>>

\* a run starts on an engine whose earlier run recorded equity points (the
\* strategy it is given remembers a close of that run)
C12_Witness ==
    /\ RunStart /\ pc = "RUNNING"
    /\ strategy.kind = "Scalping" /\ strategy.last_price # None
    /\ current_capital = run.capital

\* -------------------------------------------------------------- C13
\* no row of the series read so far has a defined close
NaNOnly(data) == \A k \in 1..Len(data) : data[k].Close = NaN

\* the two outcomes as first stated: an error only for an empty series
C13_ErrorOnlyWhenEmpty ==
    /\ pc = "COMPLETE" => result.kind = "report"
    /\ pc = "FAILED" => result.kind = "error" /\ run.empty

\* COMPLETE: every row has been visited in order and the report carries the
\* raw equity curve and trade log; FAILED: an error, for an empty series or
\* for a series none of whose rows has a defined close
OutcomeIsOneOfTwo ==
    /\ InRun => result = NoResult
    /\ pc = "COMPLETE" =>
          /\ ~run.empty /\ run.i = Len(run.data) /\ ~NaNOnly(run.data)
          /\ result.kind = "report"
          /\ result.portfolio_values = portfolio_values
          /\ result.trade_history = trade_history
          /\ \A k \in 1..Len(portfolio_values) :
                /\ portfolio_values[k].date \in 1..Len(run.data)
                /\ portfolio_values[k].price = run.data[portfolio_values[k].date].Close
    /\ pc = "FAILED" =>
          /\ result.kind = "error"
          /\ \/ run.empty /\ run.i = 0
             \/ ~run.empty /\ run.i = Len(run.data) /\ run.i >= 1 /\ NaNOnly(run.data)
          /\ portfolio_values = <<>> /\ trade_history = <<>>

\* what is left of the loop: the rows not yet read, each worth its strategy
\* call, its signals and its EquityPoint, and the rest of the current bar
RowsLeft == IF Repeating THEN Len(run.prev.data) - run.i ELSE MaxBars - run.i
WorkLeft ==
    RowsLeft * (MaxSignals + 2) + (IF pc = "SIGNALS" THEN Len(signals) + 1 ELSE 0)
\* a running call is never stuck: it handles a signal or records the bar's
\* value, or reads the next row, or returns
RunCanStep == pc = "SIGNALS" \/ MoreRows \/ run.i >= 1

\* C13: every run over a finite series terminates (a running call can always
\* take a step, and each step either returns or leaves strictly less work),
\* in exactly one of two outcomes: COMPLETE, after every bar has been visited
\* in order, returning the report with the raw equity curve and trade log; or
\* FAILED, returning an error, which happens only when the series is empty or
\* none of its bars has a defined close.
C13_TerminatesInOneOfTwoOutcomes ==
    /\ [](OutcomeIsOneOfTwo /\ (InRun => RunCanStep /\ WorkLeft >= 0))
    /\ [][InRun => \/ pc' \in {"COMPLETE", "FAILED"}
                   \/ InRun' /\ WorkLeft' < WorkLeft]_vars

\* a run over a non-empty series has ended in an error
C13_Witness ==
    /\ pc = "FAILED" /\ ~run.empty /\ run.i = MaxBars
    /\ result = [kind |-> "error", error |-> "No portfolio values recorded"]

\* -------------------------------------------------------------- C14
\* the ledger facts right after the j-th handled signal: those the next
\* handled signal found, or the current ones if it is the last
AfterSignal(j) ==
    IF j < Len(signal_log)
    THEN [cash |-> signal_log[j + 1].cash, positions |-> signal_log[j + 1].positions,
          trades |-> signal_log[j + 1].trades]
    ELSE [cash |-> current_capital, positions |-> positions,
          trades |-> Len(trade_history)]

\* the j-th handled signal is a BUY for the symbol of the run
BuyHandled(j) == signal_log[j].action = "BUY" /\ signal_log[j].symbol = run.symbol

\* C14: for every BUY signal handled by run_backtest the executed quantity is
\* floor(0.2 x cash at the moment the signal is handled / signal price): one
\* trade of that quantity, at the signal's price and bar, is recorded and paid
\* for. When that quantity is zero nothing is executed, and the signal is not
\* retried later: no signal is pending between bars, and every trade of the log
\* is the fill of a signal handled on the trade's own bar.
C14_BuySizedAtFifthOfCash ==
    /\ \A j \in DOMAIN signal_log :
          BuyHandled(j) =>
             LET e == signal_log[j]
                 q == SizedQuantity(e)
                 a == AfterSignal(j)
             IN  IF q > 0
                 THEN /\ a.trades = e.trades + 1
                      /\ trade_history[a.trades].action = "BUY"
                      /\ trade_history[a.trades].quantity = q
                      /\ trade_history[a.trades].price = e.price
                      /\ trade_history[a.trades].date = e.date
                      /\ a.cash = e.cash - q * e.price
                      /\ Held(a.positions, run.symbol) = e.held + q
                 ELSE /\ a.trades = e.trades
                      /\ a.cash = e.cash
                      /\ a.positions = e.positions
    /\ pc = "RUNNING" => signals = <<>>
    /\ RunLog =>
          \A k \in DOMAIN trade_history :
             \E j \in DOMAIN signal_log :
                /\ signal_log[j].trades = k - 1 /\ AfterSignal(j).trades = k
                /\ signal_log[j].date = trade_history[k].date
                /\ signal_log[j].action = trade_history[k].action

\* a finished run in which one BUY was filled with the sized quantity and a
\* later BUY was sized to zero and left no trade
C14_Witness ==
    /\ pc = "COMPLETE"
    /\ \E j, k \in DOMAIN signal_log :
          /\ j < k /\ BuyHandled(j) /\ BuyHandled(k)
          /\ SizedQuantity(signal_log[j]) > 0
          /\ SizedQuantity(signal_log[k]) = 0
          /\ signal_log[k].date < run.i
          /\ Len(trade_history) = 1

\* -------------------------------------------------------------- C15
\* the handled signals of the bar dated d, in the order they were handled
LogOfBar(d) == SelectSeq(signal_log, LAMBDA e : e.date = d)
AsSignal(e) == [symbol |-> e.symbol, action |-> e.action, price |-> e.price]

\* the handled signals of the current bar followed by the pending ones are
\* the list the strategy returned, in its order
InEmittedOrder ==
    LET done == LogOfBar(BarDate(run.i))
    IN  /\ Len(done) + Len(signals) = Len(run.emitted)
        /\ \A k \in 1..Len(done) : AsSignal(done[k]) = run.emitted[k]
        /\ \A k \in 1..Len(signals) : signals[k] = run.emitted[Len(done) + k]

\* what handling e does to cash and to the quantity held of the run's symbol
CashEffect(e) ==
    IF e.symbol # run.symbol THEN 0
    ELSE IF e.action = "BUY" THEN -(SizedQuantity(e) * e.price)
    ELSE e.held * e.price
HeldEffect(e) ==
    IF e.symbol # run.symbol THEN 0
    ELSE IF e.action = "BUY" THEN SizedQuantity(e)
    ELSE -e.held

\* C15: within one bar the signals the strategy returned are applied to the
\* ledger one after another in the order it returned them, each sized and
\* filled against the ledger the previous one left; the bar's EquityPoint is
\* appended only after all of the bar's signals have been applied and before
\* the next bar's strategy call.
C15_SignalsInOrderThenEquityPoint ==
    /\ pc = "SIGNALS" =>
          /\ InEmittedOrder
          /\ Len(portfolio_values) = run.calls - 1
          /\ \A k \in DOMAIN portfolio_values : portfolio_values[k].date < BarDate(run.i)
    /\ pc = "RUNNING" =>
          /\ signals = <<>>
          /\ Len(portfolio_values) = run.calls
          /\ (run.i >= 1 /\ Row.Close # NaN) =>
                /\ InEmittedOrder
                /\ Last(portfolio_values).date = BarDate(run.i)
    /\ \A j \in DOMAIN signal_log :
          LET e == signal_log[j]
              a == AfterSignal(j)
          IN  /\ a.cash = e.cash + CashEffect(e)
              /\ Held(a.positions, run.symbol) = e.held + HeldEffect(e)

\* a bar for which the strategy returned a BUY and then a SELL: both were
\* filled in that order, and the bar's EquityPoint has been appended
C15_Witness ==
    /\ pc = "RUNNING" /\ run.i >= 1
    /\ Len(run.emitted) = 2
    /\ run.emitted[1].action = "BUY" /\ run.emitted[2].action = "SELL"
    /\ Len(LogOfBar(BarDate(run.i))) = 2
    /\ Len(trade_history) >= 2
    /\ Last(trade_history).action = "SELL"
    /\ Last(trade_history).date = BarDate(run.i)
    /\ trade_history[Len(trade_history) - 1].action = "BUY"
    /\ trade_history[Len(trade_history) - 1].date = BarDate(run.i)
    /\ Last(portfolio_values).date = BarDate(run.i)

\* -------------------------------------------------------------- C16
\* a caller runs a backtest with a new ScalpingStrategy object ...
RunOnce ==
    /\ pc = "READY"
    /\ \E symbol \in RunSymbols, empty \in BOOLEAN, capital \in Capitals,
          strat \in {s \in NewStrategies : s.kind = "Scalping"} :
         StartRun(symbol, empty, capital, strat, NoPrev, "none")

\* ... and when the call has returned calls run_backtest again with the same
\* strategy object, symbol, date range (hence series) and initial capital
RunAgain ==
    /\ pc \in {"COMPLETE", "FAILED"}
    /\ ~Repeating
    /\ StartRun(run.symbol, run.empty, run.capital, strategy,
                [kind |-> result.kind, data |-> run.data,
                 portfolio_values |-> portfolio_values,
                 trade_history |-> trade_history], run.strategy_name)

NextTwice ==
    \/ RunOnce
    \/ NextBar
    \/ HandleSignal
    \/ RecordValue
    \/ Finish
    \/ RunAgain

TwiceSpec == Init /\ [][NextTwice]_vars

\* C16: running the same strategy twice over the same series with the same
\* initial capital yields an identical equity curve and an identical trade
\* log: when the second run has returned, its curve and log are those of the
\* first run.
C16_SecondRunIdentical ==
    (Repeating /\ pc \in {"COMPLETE", "FAILED"}) =>
        /\ run.data = run.prev.data
        /\ portfolio_values = run.prev.portfolio_values
        /\ trade_history = run.prev.trade_history

\* ------------------------------------------------------- backtest_app
\* the strategy names the handler of /api/run_backtest knows, and the names
\* requests carry in the model: a known one and an unknown one
StrategyNames ==
    {"Moving Average Crossover", "Bollinger Bands", "RSI Strategy", "Scalping Strategy",
     "Momentum Strategy", "Mean Reversion Strategy", "Breakout Strategy"}
RequestNames == {"Scalping Strategy", "Day Trading"}

\* variant: an unknown name falls through to a default strategy
SelectStrategy_default(strategy_name, symbol) ==
    [kind |-> "Scalping", symbol |-> symbol, last_price |-> None]

\* the if/elif chain that builds the strategy object for the request's symbol
\* (NoStrategy: the else branch); the strategies other than ScalpingStrategy
\* are taken as any strategy
SelectStrategy(strategy_name, symbol) ==
    IF strategy_name = "Scalping Strategy"
    THEN [kind |-> "Scalping", symbol |-> symbol, last_price |-> None]
    ELSE IF strategy_name \in StrategyNames
    THEN [kind |-> "Generic", symbol |-> symbol, last_price |-> None]
    ELSE NoStrategy

InvalidStrategy == [kind |-> "error", error |-> "Invalid strategy"]

\* the handler of POST /api/run_backtest up to its call of
\* engine.run_backtest on the module's one engine
ApiRunBacktest ==
    /\ pc \in {"READY", "COMPLETE", "FAILED"}
    /\ \E strategy_name \in RequestNames, symbol \in RunSymbols, empty \in BOOLEAN,
          capital \in Capitals :
         LET strat == SelectStrategy(strategy_name, symbol)
         IN  IF strat = NoStrategy
             THEN /\ result' = InvalidStrategy
                  /\ UNCHANGED <<trader, initial_capital, current_capital, positions,
                                 trade_history, portfolio_values, pc, run, strategy,
                                 signals, last, signal_log, ncalls>>
             ELSE StartRun(symbol, empty, capital, strat, NoPrev, strategy_name)

\* another request served at the same time: its engine.run_backtest resets the
\* same engine (lines 139-143) while this request's run is under way
OtherRunBacktest ==
    /\ InRun
    /\ ~run.shared
    /\ \E capital \in Capitals :
         /\ initial_capital' = capital
         /\ LET R == ResetLedger(capital)
            IN  /\ current_capital' = R.current_capital
                /\ positions' = R.positions
                /\ trade_history' = R.trade_history
                /\ portfolio_values' = R.portfolio_values
    /\ run' = [run EXCEPT !.shared = TRUE]
    /\ UNCHANGED <<trader, pc, strategy, signals, result, last, signal_log, ncalls>>

NextApp ==
    \/ ApiRunBacktest
    \/ NextBar
    \/ HandleSignal
    \/ RecordValue
    \/ Finish
    \/ OtherRunBacktest

AppSpec == Init /\ [][NextApp]_vars

\* -------------------------------------------------------------- C17
\* the handled signals of the run that were filled
FilledSignals == {j \in DOMAIN signal_log : AfterSignal(j).trades = signal_log[j].trades + 1}

\* C17: two run_backtest invocations that execute concurrently do not
\* interact: each owns its cash, positions, trade log and equity curve, and
\* returns the curve and log it would return alone. For the run of one request
\* that means: its initial capital is the one it was given, its equity curve
\* has one point for each bar with a defined close it has gone through, and
\* its trade log holds exactly the fills of its own signals.
C17_ConcurrentRunsIsolated ==
    RunLog =>
        /\ initial_capital = run.capital
        /\ Len(portfolio_values) = run.calls - (IF pc = "SIGNALS" THEN 1 ELSE 0)
        /\ Len(trade_history) = Cardinality(FilledSignals)
        /\ pc = "COMPLETE" => result.portfolio_values = portfolio_values

\* -------------------------------------------------------------- C19
\* the step in which a request is answered with 'Invalid strategy'
Rejected == result' = InvalidStrategy /\ result # InvalidStrategy

\* C19: a backtest request that names an unknown strategy is rejected with an
\* error result before the run starts: run_backtest of the engine is invoked
\* only for the known strategy names, and the rejection leaves the engine's
\* initial capital, cash, positions, trade log and equity curve, and the
\* engine's last run, untouched.
C19_UnknownStrategyRejected ==
    /\ [](run.strategy_name \in StrategyNames \cup {"none"})
    /\ [][Rejected => UNCHANGED <<initial_capital, current_capital, positions,
                                  trade_history, portfolio_values, pc, run,
                                  strategy, signals>>]_vars

\* a request with an unknown name has been rejected by an engine that still
\* holds the curve and trades of the run it completed before
C19_Witness ==
    /\ result = InvalidStrategy
    /\ pc = "COMPLETE"
    /\ run.strategy_name = "Scalping Strategy"
    /\ portfolio_values # <<>>
    /\ trade_history # <<>>

\* -------------------------------------------------------------- C18
\* the j-th handled signal is for the run's symbol and cannot be filled: a
\* BUY sized to zero or beyond the cash, or a SELL with nothing held
Unfillable(j) == signal_log[j].symbol = run.symbol /\ DroppedAsStated(signal_log[j])

\* the equity curve has the point of the bar dated d
HasPoint(d) == \E k \in DOMAIN portfolio_values : portfolio_values[k].date = d

\* C18: a signal that cannot be filled is not an error: handling it leaves
\* cash, positions and the trade log unchanged, the run continues (a run that
\* has handled a signal ends with a report, never with an error), and the
\* EquityPoint of that bar is still recorded.
C18_UnfillableSignalIsNoError ==
    /\ \A j \in DOMAIN signal_log :
          Unfillable(j) =>
             /\ AfterSignal(j).cash = signal_log[j].cash
             /\ AfterSignal(j).positions = signal_log[j].positions
             /\ AfterSignal(j).trades = signal_log[j].trades
             /\ pc \in {"RUNNING", "COMPLETE"} => HasPoint(signal_log[j].date)
             /\ pc = "SIGNALS" =>
                   signal_log[j].date = BarDate(run.i) \/ HasPoint(signal_log[j].date)
    /\ signal_log # <<>> =>
          /\ pc \in {"RUNNING", "SIGNALS", "COMPLETE"}
          /\ pc = "COMPLETE" => result.kind = "report"
          /\ pc # "COMPLETE" => result = NoResult

\* a finished run in which a SELL found nothing held and a BUY was sized to
\* zero, on a bar whose EquityPoint is in the curve
C18_Witness ==
    /\ pc = "COMPLETE"
    /\ \E j, k \in DOMAIN signal_log :
          /\ Unfillable(j) /\ signal_log[j].action = "SELL"
          /\ Unfillable(k) /\ signal_log[k].action = "BUY"
          /\ signal_log[j].date = signal_log[k].date
          /\ HasPoint(signal_log[j].date)
    /\ trade_history = <<>>

\* -------------------------------------------------------------- C20
\* equity curves of up to MaxPoints points with values from CurveValues, as the
\* loop of run_backtest may have left them when it calls
\* calculate_performance_metrics
MaxPoints == 3
CurveValues == {50, 100, 200, 400}
MetricCapitals == Capitals \cup {0}
\* with no capital nothing can be bought, and the value stays 0
CurvesOf(capital) ==
    UNION {[1..n -> IF capital = 0 THEN {0} ELSE CurveValues] : n \in 1..MaxPoints}

\* the rows are one day apart, or all of one day
MetricsInit ==
    /\ initial_capital \in MetricCapitals
    /\ current_capital = initial_capital
    /\ positions = NoPositions
    /\ trade_history = <<>>
    /\ \E curve \in CurvesOf(initial_capital), same_day \in BOOLEAN :
         /\ portfolio_values = [t \in 1..Len(curve) |->
                [date |-> IF same_day THEN BarDate(1) ELSE BarDate(t),
                 portfolio_value |-> RatInt(curve[t]), price |-> 10]]
         /\ run = [NoRun EXCEPT !.symbol = "AAPL", !.empty = FALSE,
                                !.capital = initial_capital,
                                !.data = [t \in 1..Len(curve) |-> [Close |-> 10]],
                                !.i = Len(curve), !.calls = Len(curve)]
    /\ pc = "RUNNING"
    /\ strategy = [kind |-> "Generic", symbol |-> "AAPL", last_price |-> None]
    /\ signals = <<>>
    /\ result = NoResult
    /\ last = NoCall
    /\ signal_log = <<>>
    /\ ncalls = 0
    /\ trader = NoTrader

MetricsSpec == MetricsInit /\ [][Finish]_vars

\* the peak at t: a value at or before t that no value at or before t exceeds
PeakAt(values, t) ==
    values[CHOOSE s \in 1..t : \A u \in 1..t : RatLeq(values[u], values[s])]
DrawdownAt(values, t) ==
    LET peak == PeakAt(values, t)
    IN  <<(values[t][1] * peak[2] - peak[1] * values[t][2]) * peak[2],
          values[t][2] * peak[2] * peak[1]>>
\* two fractions with positive denominators are the same number
SameNumber(x, y) == x[1] * y[2] = y[1] * x[2]
NonDecreasing(values) ==
    \A t \in 1..(Len(values) - 1) : RatLeq(values[t], values[t + 1])

\* C20: the max_drawdown of a report is the minimum over all equity points t
\* of (value[t] - peak[t]) / peak[t], where peak[t] is the largest value at or
\* before t; it is <= 0 for every equity curve, and it is 0 when the curve is
\* monotonically non-decreasing.
C20_MaxDrawdownIsMinOverPeaks ==
    (pc = "COMPLETE" /\ result.kind = "report") =>
        LET values == ValueColumn(result.portfolio_values)
            dd == result.max_drawdown
        IN  /\ \E t \in DOMAIN values : SameNumber(dd, DrawdownAt(values, t))
            /\ \A t \in DOMAIN values :
                  dd[1] * DrawdownAt(values, t)[2] <= DrawdownAt(values, t)[1] * dd[2]
            /\ dd[2] > 0 /\ dd[1] <= 0
            /\ NonDecreasing(values) => dd[1] = 0

\* the report of a curve that rises, then falls below its peak, and whose
\* lowest point relative to the running peak is not its last
C20_Witness ==
    /\ pc = "COMPLETE" /\ result.kind = "report"
    /\ Len(portfolio_values) = 3
    /\ portfolio_values[1].portfolio_value = RatInt(100)
    /\ portfolio_values[2].portfolio_value = RatInt(50)
    /\ portfolio_values[3].portfolio_value = RatInt(200)
    /\ result.max_drawdown = <<-1, 2>>

\* -------------------------------------------------------------- C21
\* a report has been returned for a non-empty equity curve
Reported == pc = "COMPLETE" /\ result.kind = "report"

\* C21: the annualized_return of a report is 0 whenever the equity curve has
\* fewer than two points or the days elapsed between its first and last point
\* are 0; otherwise it is (1 + total_return) ^ (365 / elapsed days) - 1 with
\* total_return = (final value - initial capital) / initial capital (and 0
\* when that is undefined because the initial capital is 0).
C21_AnnualizedReturn ==
    Reported =>
        LET curve == result.portfolio_values
            final == curve[Len(curve)].portfolio_value
            initial == result.initial_capital
            days == curve[Len(curve)].date - curve[1].date
        IN  IF Len(curve) < 2 \/ days = 0 \/ initial = 0
            THEN result.annualized_return = Zero
            ELSE result.annualized_return =
                    [kind |-> "pow",
                     base |-> RatAdd(RatInt(1),
                                     Rat(final[1] - initial * final[2], final[2] * initial)),
                     exponent |-> Rat(365, days)]

\* the report of a curve over two days that ends at twice the initial capital
C21_Witness ==
    /\ Reported
    /\ Len(portfolio_values) = 3
    /\ portfolio_values[3].date - portfolio_values[1].date = 2
    /\ initial_capital = 100
    /\ result.annualized_return = [kind |-> "pow", base |-> <<2, 1>>, exponent |-> <<365, 2>>]

\* -------------------------------------------------------------- C22
\* the points of a value column that have a daily return: those whose
\* previous value is not 0 (a change from 0 to 0 is undefined)
WithReturn(values) == {t \in 2..Len(values) : values[t - 1][1] # 0}
\* the daily return at t as a fraction: (value[t] - value[t-1]) / value[t-1]
ReturnAt(values, t) ==
    <<values[t][1] * values[t - 1][2] - values[t - 1][1] * values[t][2],
      values[t][2] * values[t - 1][1]>>
\* the daily returns do not differ, so their standard deviation is 0
NoSpread(values) ==
    \A t, u \in WithReturn(values) : SameNumber(ReturnAt(values, t), ReturnAt(values, u))

\* C22: the reported sharpe_ratio is 0 whenever the equity curve yields fewer
\* than two valid daily returns (in particular when it has fewer than three
\* points) or the standard deviation of the daily returns is 0; otherwise it
\* is the ratio computed from the valid returns.
C22_SharpeZeroWhenUndefined ==
    Reported =>
        LET values == ValueColumn(result.portfolio_values)
        IN  /\ Len(values) < 3 => result.sharpe_ratio = Zero
            /\ Cardinality(WithReturn(values)) < 2 => result.sharpe_ratio = Zero
            /\ NoSpread(values) => result.sharpe_ratio = Zero
            /\ (Cardinality(WithReturn(values)) >= 2 /\ ~NoSpread(values)) =>
                  /\ result.sharpe_ratio.kind = "ratio"
                  /\ Len(result.sharpe_ratio.returns) = Cardinality(WithReturn(values))

\* the report of a curve that doubles every day: two equal returns of 100%
C22_Witness ==
    /\ Reported
    /\ Len(portfolio_values) = 3
    /\ portfolio_values[1].portfolio_value = RatInt(50)
    /\ portfolio_values[2].portfolio_value = RatInt(100)
    /\ portfolio_values[3].portfolio_value = RatInt(200)
    /\ result.sharpe_ratio = Zero

\* -------------------------------------------------------------- C23
\* a reported metric that is a value of the float range
DefinedNumber(x) ==
    /\ x.kind \in {"zero", "pow", "ratio"}
    /\ ~Overflows(x)

\* C23: every metric of a returned performance report (total return,
\* annualized return, Sharpe ratio, max drawdown) is a defined number; where
\* its computation is undefined (initial capital 0, running peak 0, too few
\* samples) the reported value is 0.0.
C23_MetricsAreDefinedNumbers ==
    Reported =>
        /\ IsNumber(result.total_return)
        /\ IsNumber(result.max_drawdown)
        /\ DefinedNumber(result.annualized_return)
        /\ DefinedNumber(result.sharpe_ratio)
        /\ result.initial_capital = 0 =>
              /\ result.total_return = RatInt(0)
              /\ result.annualized_return = Zero
              /\ result.sharpe_ratio = Zero
              /\ result.max_drawdown = RatInt(0)
        /\ Len(result.portfolio_values) < 3 => result.sharpe_ratio = Zero

\* the undefined metrics of a run without capital are reported as 0.0
C23_UndefinedReportedAsZero ==
    (Reported /\ result.initial_capital = 0) =>
        /\ result.total_return = RatInt(0)
        /\ result.annualized_return = Zero
        /\ result.sharpe_ratio = Zero
        /\ result.max_drawdown = RatInt(0)

\* a value that grew eightfold within one day: 8 ** 365 is no float
C23_OverflowReported ==
    /\ Reported
    /\ Len(result.portfolio_values) = 2
    /\ result.initial_capital = 50
    /\ result.final_portfolio_value = RatInt(400)
    /\ Overflows(result.annualized_return)

\* ------------------------------------------- strategy objects and bars
\* The strategy variants are checked on their own: a newly constructed
\* strategy object is given up to MaxFeeds rows, as the loop of run_backtest
\* gives them (line 156), and signal_log keeps every call: the row, the list
\* returned and the strategy's memory before the call.
MaxFeeds == 3

StrategyKinds == {"MovingAverageCrossover", "Scalping", "Momentum", "MeanReversion",
                  "BollingerBands", "RSI", "Breakout"}
\* the variants whose generate_signals writes to self
Stateful == {"MovingAverageCrossover", "Scalping", "Breakout"}

\* __init__ of the strategy classes: last_signal = None, last_price = None,
\* no recent_high / recent_low attribute yet; RSIStrategy keeps its two levels
StrategyObject(kind, oversold, overbought) ==
    [kind |-> kind, symbol |-> "AAPL", last_price |-> None, last_signal |-> "None",
     recent_high |-> None, recent_low |-> None,
     oversold |-> oversold, overbought |-> overbought]

\* RSIStrategy(40, 60, symbol) as the web handler constructs it, and a pair
\* of levels that cross, which the constructor accepts as well
RSILevels == {<<40, 60>>, <<60, 40>>}

StrategyObjects ==
    {StrategyObject(kind, 40, 60) : kind \in StrategyKinds}
        \cup {StrategyObject("RSI", l[1], l[2]) : l \in RSILevels}

\* a row with no indicator defined yet
PlainRow ==
    [Close |-> 100, Open |-> 100, High |-> 100, Low |-> 100, Volume |-> 1,
     SMA_10 |-> NaN, SMA_30 |-> NaN,
     BB_Upper |-> NaN, BB_Lower |-> NaN, BB_Middle |-> NaN, RSI |-> NaN]

\* <<BB_Lower, BB_Upper, BB_Middle>>: bands of width 10, each band undefined
\* in turn, and bands of no width
BandCases == {<<100, 110, 105>>, <<NaN, 110, 105>>, <<100, NaN, 105>>,
              <<100, 110, NaN>>, <<100, 100, 100>>}
\* <<High, Low>> around a close
RangeCases(close) == {<<close, close>>, <<103, 97>>}

\* the rows a variant is given: the columns it reads take the values around
\* its thresholds, the others stay as in PlainRow
StrategyRows(kind) ==
    CASE kind = "MovingAverageCrossover" ->
            {[PlainRow EXCEPT !.SMA_10 = s, !.SMA_30 = l] : s \in {NaN, 10, 20}, l \in {NaN, 10, 20}}
      [] kind = "Scalping" ->
            {[PlainRow EXCEPT !.Close = c] : c \in {1000, 1005, 1010}}
      [] kind = "Momentum" ->
            {[PlainRow EXCEPT !.Close = c, !.Volume = v] :
                c \in {97, 98, 100, 102, 103}, v \in {Absent, NaN, 1}}
      [] kind = "MeanReversion" ->
            {[PlainRow EXCEPT !.Close = c, !.SMA_30 = l] :
                c \in {94, 95, 100, 105, 106}, l \in {NaN, 100}}
      [] kind = "BollingerBands" ->
            {[PlainRow EXCEPT !.Close = c, !.BB_Lower = b[1], !.BB_Upper = b[2], !.BB_Middle = b[3]] :
                c \in {99, 100, 101, 102, 108, 109}, b \in BandCases}
      [] kind = "RSI" ->
            {[PlainRow EXCEPT !.RSI = r] : r \in {NaN, 30, 40, 50, 60, 70}}
      [] kind = "Breakout" ->
            UNION {{[PlainRow EXCEPT !.Close = c, !.High = r[1], !.Low = r[2]] : r \in RangeCases(c)} :
                      c \in {98, 99, 100, 101, 102}}

\* a variant without memory answers each row alone
Feeds(kind) == IF kind \in Stateful THEN MaxFeeds ELSE MaxFeeds - 1

StrategyInit ==
    /\ initial_capital = 100
    /\ current_capital = initial_capital
    /\ positions = NoPositions
    /\ trade_history = <<>>
    /\ portfolio_values = <<>>
    /\ pc = "STRATEGY"
    /\ run = NoRun
    /\ strategy \in StrategyObjects
    /\ signals = <<>>
    /\ result = NoResult
    /\ last = NoCall
    /\ signal_log = <<>>
    /\ ncalls = 0
    /\ trader = NoTrader

\* signals = strategy.generate_signals(row)
GenerateSignals ==
    /\ pc = "STRATEGY"
    /\ Len(signal_log) < Feeds(strategy.kind)
    /\ \E row \in StrategyRows(strategy.kind) :
         \E out \in generate_signals(strategy, row) :
            /\ signals' = out.signals
            /\ strategy' = out.strategy
            /\ signal_log' = Append(signal_log,
                                    [row |-> row, signals |-> out.signals, before |-> strategy])
    /\ UNCHANGED <<trader, initial_capital, current_capital, positions, trade_history,
                   portfolio_values, pc, run, result, last, ncalls>>

StrategySpec == StrategyInit /\ [][GenerateSignals]_vars

\* the calls made on the strategy so far
Fed == pc = "STRATEGY" /\ signal_log # <<>>
\* the last call: its row, the list it returned, the memory it found
Call == signal_log[Len(signal_log)]
Actions(sigs) == [k \in 1..Len(sigs) |-> sigs[k].action]

\* -------------------------------------------------------------- C24
\* the row meets both the BUY and the SELL condition of an RSI strategy
\* whose levels cross
BothConditions(s, row) ==
    /\ s.kind = "RSI"
    /\ row.RSI # NaN
    /\ row.RSI <= s.oversold
    /\ row.RSI >= s.overbought

\* C24: every strategy variant returns at most one signal per bar; the BUY
\* condition is evaluated first and when it fires the SELL condition is not
\* evaluated, so a BUY and a SELL are never both emitted for the same bar.
C24_AtMostOneSignalPerBar ==
    Fed =>
        \A k \in 1..Len(signal_log) :
            /\ Len(signal_log[k].signals) <= 1
            /\ BothConditions(signal_log[k].before, signal_log[k].row) =>
                  Actions(signal_log[k].signals) = <<"BUY">>

\* an RSI of 50 between an overbought level of 40 and an oversold level of 60
C24_Witness ==
    /\ Fed
    /\ strategy.kind = "RSI"
    /\ strategy.oversold = 60
    /\ strategy.overbought = 40
    /\ Call.row.RSI = 50
    /\ Actions(signals) = <<"BUY">>

\* -------------------------------------------------------------- C25
\* the calls that returned a signal, in order
EmittingCalls == SelectSeq(signal_log, LAMBDA e : e.signals # <<>>)
\* the strategy's memory after the k-th call
MemoryAfter(k) == IF k = Len(signal_log) THEN strategy ELSE signal_log[k + 1].before
\* an average of the row is undefined
AverageUndefined(row) == row.SMA_10 = NaN \/ row.SMA_30 = NaN

\* C25: MovingAverageCrossover emits a signal on a bar only when its
\* direction differs from the direction of the signal it emitted last, so its
\* emitted signals strictly alternate between BUY and SELL; on a bar where the
\* short or the long average is undefined it emits nothing and its remembered
\* last direction is unchanged.
C25_CrossoverSignalsAlternate ==
    (Fed /\ strategy.kind = "MovingAverageCrossover") =>
        /\ \A k \in 1..(Len(EmittingCalls) - 1) :
              EmittingCalls[k].signals[1].action # EmittingCalls[k + 1].signals[1].action
        /\ \A k \in 1..Len(signal_log) :
              AverageUndefined(signal_log[k].row) =>
                  /\ signal_log[k].signals = <<>>
                  /\ MemoryAfter(k).last_signal = signal_log[k].before.last_signal

\* BUY, then a bar without the long average, then SELL
C25_Witness ==
    /\ Fed
    /\ strategy.kind = "MovingAverageCrossover"
    /\ Len(signal_log) = 3
    /\ Actions(signal_log[1].signals) = <<"BUY">>
    /\ signal_log[2].row.SMA_30 = NaN
    /\ signal_log[2].signals = <<>>
    /\ Actions(signal_log[3].signals) = <<"SELL">>
    /\ strategy.last_signal = "SELL"

\* -------------------------------------------------------------- C26
\* C26: MovingAverageCrossover emits BUY only on a bar where the short
\* average is strictly above the long average and SELL only on a bar where it
\* is strictly below; on a bar where the two averages are equal it emits no
\* signal.
C26_CrossoverDirectionStrict ==
    (Fed /\ strategy.kind = "MovingAverageCrossover") =>
        \A k \in 1..Len(signal_log) :
            LET row == signal_log[k].row
                emitted == Actions(signal_log[k].signals)
            IN  ~AverageUndefined(row) =>
                    /\ emitted = <<"BUY">> => row.SMA_10 > row.SMA_30
                    /\ emitted = <<"SELL">> => row.SMA_10 < row.SMA_30
                    /\ row.SMA_10 = row.SMA_30 => emitted = <<>>

\* a bar of equal averages, for which calculate_signals of
\* trading_strategies.py says HOLD, made the strategy emit SELL
C26_SellOnEqualAverages ==
    /\ Fed
    /\ strategy.kind = "MovingAverageCrossover"
    /\ ~AverageUndefined(Call.row)
    /\ MovingAverageCrossover_signal(Call.row.SMA_10, Call.row.SMA_30) = "HOLD"
    /\ Actions(signals) = <<"SELL">>

\* -------------------------------------------------------------- C27
BandUndefined(row) == row.BB_Upper = NaN \/ row.BB_Lower = NaN \/ row.BB_Middle = NaN

\* C27: BollingerBands, with position = (close - lower) / (upper - lower),
\* emits BUY exactly when position <= 0.1, SELL exactly when position >= 0.9
\* and nothing otherwise; on a bar where any band is undefined it emits zero
\* signals whatever the price. The position is compared in tenths of the band
\* width; for bands of no width it is minus infinity below the band, plus
\* infinity above it and undefined on it.
C27_BollingerByPosition ==
    (Fed /\ strategy.kind = "BollingerBands") =>
        \A k \in 1..Len(signal_log) :
            LET row == signal_log[k].row
                emitted == Actions(signal_log[k].signals)
                width == row.BB_Upper - row.BB_Lower
                above == row.Close - row.BB_Lower
            IN  /\ emitted \in {<<>>, <<"BUY">>, <<"SELL">>}
                /\ BandUndefined(row) => emitted = <<>>
                /\ (~BandUndefined(row) /\ width > 0) =>
                      /\ emitted = <<"BUY">> <=> 10 * above <= width
                      /\ emitted = <<"SELL">> <=> 10 * above >= 9 * width
                /\ (~BandUndefined(row) /\ width = 0) =>
                      /\ emitted = <<"BUY">> <=> above < 0
                      /\ emitted = <<"SELL">> <=> above > 0

\* a close at exactly a tenth of the band, then one at nine tenths
C27_Witness ==
    /\ Fed
    /\ strategy.kind = "BollingerBands"
    /\ Len(signal_log) = 2
    /\ ~BandUndefined(signal_log[1].row) /\ ~BandUndefined(signal_log[2].row)
    /\ signal_log[1].row.BB_Upper = 110 /\ signal_log[1].row.Close = 101
    /\ Actions(signal_log[1].signals) = <<"BUY">>
    /\ signal_log[2].row.BB_Upper = 110 /\ signal_log[2].row.Close = 109
    /\ Actions(signal_log[2].signals) = <<"SELL">>

\* -------------------------------------------------------------- C28
\* C28: MeanReversion emits BUY when the close is at least 5% below the long
\* moving average (deviation <= -5%, the boundary included) and SELL when it
\* is at least 5% above (deviation >= +5%, boundary included); it emits
\* nothing when the long moving average is undefined. The deviation
\* (close - average) / average is compared in twentieths of the average.
C28_MeanReversionBoundaryIncluded ==
    (Fed /\ strategy.kind = "MeanReversion") =>
        \A k \in 1..Len(signal_log) :
            LET row == signal_log[k].row
                emitted == Actions(signal_log[k].signals)
                gap == row.Close - row.SMA_30
            IN  /\ row.SMA_30 = NaN => emitted = <<>>
                /\ (row.SMA_30 # NaN /\ 20 * gap <= -row.SMA_30) => emitted = <<"BUY">>
                /\ (row.SMA_30 # NaN /\ 20 * gap >= row.SMA_30) => emitted = <<"SELL">>

\* a close exactly 5% below the average gave no signal
C28_BoundaryGivesNothing ==
    /\ Fed
    /\ strategy.kind = "MeanReversion"
    /\ Call.row.SMA_30 = 100
    /\ Call.row.Close = 95
    /\ signals = <<>>

\* -------------------------------------------------------------- C29
\* the highest High and the lowest Low of the first k rows given
MaxHigh(k) ==
    CHOOSE h \in {signal_log[j].row.High : j \in 1..k} :
        \A j \in 1..k : signal_log[j].row.High <= h
MinLow(k) ==
    CHOOSE l \in {signal_log[j].row.Low : j \in 1..k} :
        \A j \in 1..k : signal_log[j].row.Low >= l

\* C29: Breakout keeps a running high and a running low that are updated on
\* every bar whether or not a signal was emitted (after each bar they are the
\* maximum High and minimum Low of all bars seen so far); on a bar it emits
\* BUY when the close exceeds the running high of the earlier bars by more
\* than 1%, otherwise SELL when the close is more than 1% below the running
\* low of the earlier bars, and it emits nothing on the first bar.
C29_BreakoutRunningRange ==
    (Fed /\ strategy.kind = "Breakout") =>
        \A k \in 1..Len(signal_log) :
            LET row == signal_log[k].row
                emitted == Actions(signal_log[k].signals)
            IN  /\ MemoryAfter(k).recent_high = MaxHigh(k)
                /\ MemoryAfter(k).recent_low = MinLow(k)
                /\ k = 1 => emitted = <<>>
                /\ k > 1 =>
                      emitted = IF 100 * row.Close > 101 * MaxHigh(k - 1) THEN <<"BUY">>
                                ELSE IF 100 * row.Close < 99 * MinLow(k - 1) THEN <<"SELL">>
                                ELSE <<>>

\* the bar that broke out raised the running high: the same close on the
\* next bar is no breakout any more
C29_Witness ==
    /\ Fed
    /\ strategy.kind = "Breakout"
    /\ Len(signal_log) = 3
    /\ signal_log[1].row.High = 100
    /\ signal_log[2].row.Close = 102
    /\ Actions(signal_log[2].signals) = <<"BUY">>
    /\ signal_log[3].before.recent_high = 102
    /\ signal_log[3].row.Close = 102
    /\ signal_log[3].signals = <<>>

\* -------------------------------------------------------------- C30
\* C30: Scalping compares each bar's close with the close of the previous bar
\* it was given: it emits BUY when the relative change is above +0.5%, SELL
\* when it is below -0.5%, nothing otherwise and nothing on the first bar; its
\* remembered last price is set to the current close on every bar, whether or
\* not a signal was emitted. The change is compared in thousandths of the
\* previous close.
C30_ScalpingAgainstPreviousClose ==
    (Fed /\ strategy.kind = "Scalping") =>
        \A k \in 1..Len(signal_log) :
            LET row == signal_log[k].row
                emitted == Actions(signal_log[k].signals)
            IN  /\ MemoryAfter(k).last_price = row.Close
                /\ k = 1 => emitted = <<>>
                /\ k > 1 =>
                      LET previous == signal_log[k - 1].row.Close
                          change == row.Close - previous
                      IN  emitted = IF 1000 * change > 5 * previous THEN <<"BUY">>
                                    ELSE IF 1000 * change < -5 * previous THEN <<"SELL">>
                                    ELSE <<>>

\* 1000, 1005, 1010: two rises of 0.5% or less, no signal, and the second is
\* measured from 1005
C30_Witness ==
    /\ Fed
    /\ strategy.kind = "Scalping"
    /\ Len(signal_log) = 3
    /\ signal_log[1].row.Close = 1000
    /\ signal_log[2].row.Close = 1005
    /\ signal_log[2].signals = <<>>
    /\ signal_log[3].before.last_price = 1005
    /\ signal_log[3].row.Close = 1010
    /\ signal_log[3].signals = <<>>
    /\ strategy.last_price = 1010

\* -------------------------------------------------------------- C31
\* A run over a series that is known in advance: a new ScalpingStrategy, an
\* initial capital of 1000 and three bars with closes among 90, 99 and 100.
ExampleCloses == {90, 99, 100}
ExampleSeries == {[t \in 1..3 |-> [Close |-> closes[t]]] : closes \in [1..3 -> ExampleCloses]}

RunExample ==
    /\ pc = "READY"
    /\ \E series \in ExampleSeries,
          strat \in {s \in NewStrategies : s.kind = "Scalping" /\ s.symbol = "AAPL"} :
         StartRun("AAPL", FALSE, 1000, strat,
                  [kind |-> "series", data |-> series,
                   portfolio_values |-> <<>>, trade_history |-> <<>>], "none")

NextExample ==
    \/ RunExample
    \/ NextBar
    \/ HandleSignal
    \/ RecordValue
    \/ Finish

ExampleSpec == Init /\ [][NextExample]_vars

\* the run over the closes [100, 90, 99]
IsExample ==
    /\ run.prev.kind = "series"
    /\ run.prev.data = <<[Close |-> 100], [Close |-> 90], [Close |-> 99]>>

\* C31: for the series of 3 bars with closes [100, 90, 99], initial capital
\* 1000 and a fresh Scalping strategy, the run records no trade on bars 1 and
\* 2 (bar 2's SELL is a no-op since nothing is held), exactly one trade on bar
\* 3 (BUY of 2 shares at 99), ends with cash 802, and every equity point
\* including the final one has value 1000.
C31_ScalpingExample ==
    IsExample =>
        /\ \A k \in 1..Len(trade_history) :
              /\ trade_history[k].date = BarDate(3)
              /\ trade_history[k].action = "BUY"
              /\ trade_history[k].quantity = 2
              /\ trade_history[k].price = 99
        /\ Len(trade_history) <= 1
        /\ \A t \in 1..Len(portfolio_values) :
              portfolio_values[t].portfolio_value = RatInt(1000)
        /\ pc = "COMPLETE" =>
              /\ Len(trade_history) = 1
              /\ current_capital = 802
              /\ Len(portfolio_values) = 3
              /\ Len(signal_log) = 2
              /\ signal_log[1].action = "SELL" /\ signal_log[1].date = BarDate(2)
              /\ signal_log[1].held = 0
              /\ result.kind = "report"
              /\ result.final_portfolio_value = RatInt(1000)
              /\ result.total_trades = 1

C31_Witness ==
    /\ IsExample
    /\ pc = "COMPLETE"
    /\ current_capital = 802
    /\ Len(trade_history) = 1
    /\ Len(portfolio_values) = 3

\* ------------------------------------------------------------- ledger
\* The ledger on its own: execute_trade called directly on a new engine, any
\* symbol, action, quantity and price, up to MaxCalls times.
LedgerSpec == Init /\ [][ExecuteTradeCall]_vars

\* -------------------------------------------------------------- C32
\* cash plus the traded symbol's holding at the fill price, before and after
ValueBefore == last.cash + Held(last.positions, last.symbol) * last.price
ValueAfter == current_capital + Held(positions, last.symbol) * last.price

\* C32 as stated: for every trade executed by execute_trade at price p,
\* cash + held quantity of the symbol x p is the same immediately before and
\* immediately after the trade, and the portfolio_value stored in the trade
\* record equals that value.
C32_FillConservesValue ==
    Filled =>
        /\ ValueAfter = ValueBefore
        /\ Last(trade_history).portfolio_value = RatInt(ValueAfter)

\* C32 amended: the fill conserves cash + held quantity x p, and the
\* portfolio_value stored in the trade record is that value plus, for every
\* other held symbol, quantity x that position's average cost.
C32_FillConservesValueOthersAtCost ==
    Filled =>
        /\ ValueAfter = ValueBefore
        /\ Last(trade_history).portfolio_value =
               RatAdd(RatInt(ValueAfter),
                      OthersAtCost(positions, DOMAIN positions, last.symbol))

\* a fill at a price other than the position's average cost while another
\* symbol is held
C32_Witness ==
    /\ Filled
    /\ DOMAIN positions = Symbols
    /\ positions[last.symbol].avg_price # RatInt(last.price)
    /\ Last(trade_history).portfolio_value # RatInt(ValueAfter)

NextRun ==
    \/ RunBacktest
    \/ NextBar
    \/ HandleSignal
    \/ RecordValue
    \/ Finish
RunSpec == Init /\ [][NextRun]_vars

\* -------------------------------------------------------------- C34
\* C34: during a run with positive prices and non-negative initial capital,
\* cash is never negative, and every BUY executed by the engine costs at most
\* 20% of the cash held just before it, so a BUY sized by the engine to a
\* positive quantity is always filled: the insufficient-cash rejection is
\* never reached from run_backtest.
C34_RunBuysWithinFifthOfCash ==
    RunLog =>
        /\ current_capital >= 0
        /\ \A j \in DOMAIN signal_log :
              LET e == signal_log[j]
                  a == AfterSignal(j)
              IN  /\ e.cash >= 0
                  /\ (BuyHandled(j) /\ a.trades = e.trades + 1) =>
                        /\ 5 * trade_history[a.trades].cost <= e.cash
                        /\ a.cash = e.cash - trade_history[a.trades].cost
                  /\ (BuyHandled(j) /\ SizedQuantity(e) > 0) => a.trades = e.trades + 1
        /\ CalledBuy =>
              /\ last.quantity * last.price <= last.cash
              /\ Filled

\* a run that filled a BUY for exactly a fifth of the cash and then one for
\* less than a fifth of what was left
C34_Witness ==
    /\ RunLog
    /\ \E j, k \in DOMAIN signal_log :
          /\ j < k /\ BuyHandled(j) /\ BuyHandled(k)
          /\ AfterSignal(j).trades = signal_log[j].trades + 1
          /\ 5 * (signal_log[j].cash - AfterSignal(j).cash) = signal_log[j].cash
          /\ AfterSignal(k).trades = signal_log[k].trades + 1
          /\ 5 * (signal_log[k].cash - AfterSignal(k).cash) < signal_log[k].cash

\* -------------------------------------------------------------- C35
\* the j-th handled signal is a SELL for the symbol of the run
SellHandled(j) == signal_log[j].action = "SELL" /\ signal_log[j].symbol = run.symbol

\* C35: in run_backtest every executed SELL liquidates the whole position:
\* the trade quantity equals the quantity held just before it and the symbol
\* has no position afterwards, so a partial sell never occurs in a run and a
\* second SELL with no BUY in between records no trade.
C35_RunSellsWholePosition ==
    RunLog =>
        /\ \A j \in DOMAIN signal_log :
              SellHandled(j) =>
                 LET e == signal_log[j]
                     a == AfterSignal(j)
                 IN  /\ run.symbol \notin DOMAIN a.positions
                     /\ IF e.held > 0
                        THEN /\ a.trades = e.trades + 1
                             /\ trade_history[a.trades].action = "SELL"
                             /\ trade_history[a.trades].quantity = e.held
                        ELSE a.trades = e.trades
        /\ \A j \in 1..(Len(signal_log) - 1) :
              (SellHandled(j) /\ SellHandled(j + 1)) =>
                  AfterSignal(j + 1).trades = signal_log[j + 1].trades

\* a BUY, a SELL that sold all of it, and a second SELL that recorded nothing
C35_Witness ==
    /\ RunLog
    /\ \E j \in 1..(Len(signal_log) - 1) :
          /\ SellHandled(j) /\ SellHandled(j + 1)
          /\ signal_log[j].held > 0
          /\ AfterSignal(j).trades = signal_log[j].trades + 1
          /\ AfterSignal(j + 1).trades = signal_log[j + 1].trades

\* -------------------------------------------------------------- C36
\* a run with a strategy that may return signals for any symbol and with any
\* action
RunAnyStrategy ==
    /\ pc \in {"READY", "COMPLETE", "FAILED"}
    /\ \E symbol \in RunSymbols, empty \in BOOLEAN, capital \in Capitals :
         StartRun(symbol, empty, capital,
                  [kind |-> "Any", symbol |-> symbol, last_price |-> None],
                  NoPrev, "none")

NextAnySignal ==
    \/ RunAnyStrategy
    \/ NextBar
    \/ HandleSignal
    \/ RecordValue
    \/ Finish

AnySignalSpec == Init /\ [][NextAnySignal]_vars

\* the j-th handled signal is not a BUY or SELL for the symbol of the run
NotForTheRun(j) ==
    \/ signal_log[j].symbol # run.symbol
    \/ signal_log[j].action \notin {"BUY", "SELL"}

\* C36: run_backtest acts only on signals whose symbol equals the symbol of
\* the run: a signal for any other symbol or with an action other than BUY or
\* SELL changes neither cash, positions nor trade log, so during a run the
\* positions map never holds a symbol other than the run's symbol.
C36_OnlySignalsOfTheRunSymbol ==
    RunLog =>
        /\ \A j \in DOMAIN signal_log :
              /\ NotForTheRun(j) =>
                    /\ AfterSignal(j).cash = signal_log[j].cash
                    /\ AfterSignal(j).positions = signal_log[j].positions
                    /\ AfterSignal(j).trades = signal_log[j].trades
              /\ DOMAIN signal_log[j].positions \subseteq {run.symbol}
        /\ DOMAIN positions \subseteq {run.symbol}
        /\ \A k \in DOMAIN trade_history : trade_history[k].symbol = run.symbol

\* a run that filled a BUY for its symbol and then handled a SELL for another
\* symbol: the position is still there
C36_Witness ==
    /\ RunLog
    /\ run.symbol \in DOMAIN positions
    /\ Len(trade_history) = 1
    /\ \E j \in DOMAIN signal_log :
          /\ signal_log[j].symbol # run.symbol /\ signal_log[j].action = "SELL"
          /\ signal_log[j].held > 0
          /\ AfterSignal(j).positions = signal_log[j].positions


\* ------------------------------------------------------------------
\* The live trader (algo_trader.py, ib_client.py, trading_strategies.py)
\* ------------------------------------------------------------------

\* the symbols a user puts on the watchlist
WatchSymbols == {"AAPL", "MSFT", "GOOG"}
\* the number of request ids the market-data dict is allowed to hold
MaxReqIds == 3

\* the fields of the backtest engine, which the live trader never touches
engine_vars == <<initial_capital, current_capital, positions, trade_history,
                 portfolio_values, pc, run, strategy, signals, result, last,
                 signal_log, ncalls>>

\* d[k] = v on a dict
Put(d, k, v) == [x \in DOMAIN d \cup {k} |-> IF x = k THEN v ELSE d[x]]
\* del d[k]
Drop(d, k) == [x \in DOMAIN d \ {k} |-> d[x]]
\* the values of a dict
Values(d) == {d[k] : k \in DOMAIN d}
\* the members of a list
Members(list) == {list[k] : k \in 1..Len(list)}
\* list.remove(x): the list without its first x
RECURSIVE Remove(_, _)
Remove(list, x) ==
    IF list = <<>> THEN <<>>
    ELSE IF Head(list) = x THEN Tail(list)
    ELSE <<Head(list)>> \o Remove(Tail(list), x)

\* the reqId IBConnection.request_market_data picks: len(self.client.data) + 1
request_market_data == Cardinality(DOMAIN trader.data) + 1

\* AlgoTrader.add_to_watchlist(symbol) for a symbol not on the list
\* (a symbol already on it returns False and changes nothing)
add_to_watchlist(symbol) ==
    /\ symbol \notin Members(trader.watchlist)
    /\ Cardinality(DOMAIN trader.data) < MaxReqIds
    /\ LET reqId == request_market_data
       IN  trader' = [trader EXCEPT !.watchlist = Append(@, symbol),
                                    !.symbol_to_reqid = Put(@, symbol, reqId),
                                    !.reqid_to_symbol = Put(@, reqId, symbol)]
    /\ UNCHANGED engine_vars

\* AlgoTrader.remove_from_watchlist(symbol) for a symbol on the list
\* (a symbol not on it returns False and changes nothing)
remove_from_watchlist(symbol) ==
    /\ symbol \in Members(trader.watchlist)
    /\ LET reqId == trader.symbol_to_reqid[symbol]
       IN  trader' = [trader EXCEPT !.watchlist = Remove(@, symbol),
                                    !.symbol_to_reqid = Drop(@, symbol),
                                    !.reqid_to_symbol = Drop(@, reqId)]
    /\ UNCHANGED engine_vars

\* IBClient.tickPrice(reqId, tickType, price, attrib), called on the
\* connection thread for a request id that is subscribed
tickPrice(reqId, price) ==
    /\ reqId \in Values(trader.symbol_to_reqid)
    /\ trader' = [trader EXCEPT !.data = Put(@, reqId, price)]
    /\ UNCHANGED engine_vars

AddToWatchlist == \E symbol \in WatchSymbols : add_to_watchlist(symbol)
RemoveFromWatchlist == \E symbol \in WatchSymbols : remove_from_watchlist(symbol)
TickPrice == \E reqId \in 1..(MaxReqIds + 1), price \in Prices : tickPrice(reqId, price)

NextWatch == AddToWatchlist \/ RemoveFromWatchlist \/ TickPrice
WatchSpec == Init /\ [][NextWatch]_vars

\* C37: after any sequence of add_to_watchlist and remove_from_watchlist calls
\* interleaved with tick callbacks, distinct watchlist symbols have distinct
\* request ids, and symbol_to_reqid and reqid_to_symbol are inverse maps whose
\* symbols are exactly the watchlist.
C37_WatchlistRequestIds ==
    /\ \A k, m \in 1..Len(trader.watchlist) :
          trader.watchlist[k] # trader.watchlist[m] =>
              trader.symbol_to_reqid[trader.watchlist[k]]
                  # trader.symbol_to_reqid[trader.watchlist[m]]
    /\ DOMAIN trader.symbol_to_reqid = Members(trader.watchlist)
    /\ Values(trader.reqid_to_symbol) = Members(trader.watchlist)
    /\ \A symbol \in DOMAIN trader.symbol_to_reqid :
          /\ trader.symbol_to_reqid[symbol] \in DOMAIN trader.reqid_to_symbol
          /\ trader.reqid_to_symbol[trader.symbol_to_reqid[symbol]] = symbol
    /\ \A reqId \in DOMAIN trader.reqid_to_symbol :
          /\ trader.reqid_to_symbol[reqId] \in DOMAIN trader.symbol_to_reqid
          /\ trader.symbol_to_reqid[trader.reqid_to_symbol[reqId]] = reqId

\* two symbols added before any tick has arrived share request id 1
C37_TwoAddsBeforeATick ==
    /\ trader.watchlist = <<"AAPL", "MSFT">>
    /\ trader.data = NoEntries
    /\ trader.symbol_to_reqid["AAPL"] = 1
    /\ trader.symbol_to_reqid["MSFT"] = 1
    /\ trader.reqid_to_symbol = Put(NoEntries, 1, "MSFT")

\* the part of the statement the code keeps: the symbols of symbol_to_reqid are
\* exactly the watchlist, and reqid_to_symbol maps the request id of a symbol
\* to a symbol of that request id
C37_SymbolsAreTheWatchlist ==
    /\ DOMAIN trader.symbol_to_reqid = Members(trader.watchlist)
    /\ \A reqId \in DOMAIN trader.reqid_to_symbol :
          /\ trader.reqid_to_symbol[reqId] \in DOMAIN trader.symbol_to_reqid
          /\ trader.symbol_to_reqid[trader.reqid_to_symbol[reqId]] = reqId


\* ------------------------------------------------------------------
\* Orders (ib_client.py place_order, algo_trader.py execute_trade)
\* ------------------------------------------------------------------

\* the threads that call AlgoTrader.execute_trade: the scheduler thread of
\* start_trading (run_strategy) and a web request thread (/api/execute-trade)
Threads == {"scheduler", "request"}
\* the number of place_order calls
MaxOrders == 3
\* the order id the gateway announces on connection
FirstOrderIds == {1}

\* IBClient.connectAck()
connectAck ==
    /\ ~trader.connected
    /\ trader' = [trader EXCEPT !.connected = TRUE]
    /\ UNCHANGED engine_vars

\* IBClient.nextValidId(orderId), sent once by the gateway after connection
nextValidId ==
    /\ trader.connected
    /\ trader.next_order_id = NoOrderId
    /\ \E orderId \in FirstOrderIds :
         trader' = [trader EXCEPT !.next_order_id = orderId]
    /\ UNCHANGED engine_vars

\* the place_order calls begun so far
OrdersBegun ==
    Len(trader.trade_history) + Cardinality({t \in Threads : trader.threads[t].pc # "idle"})

\* thread t enters execute_trade and place_order: the check of next_order_id
\* (a missing id returns None) and the read of the order id
place_order_read(t) ==
    /\ trader.threads[t].pc = "idle"
    /\ t = "scheduler" => trader.trading_enabled /\ trader.connected
    /\ trader.next_order_id # NoOrderId
    /\ OrdersBegun < MaxOrders
    /\ \E action \in {"BUY", "SELL"} :
         trader' = [trader EXCEPT !.threads[t] =
                       [pc |-> "read", orderId |-> trader.next_order_id,
                        loaded |-> NoOrderId, symbol |-> "AAPL", action |-> action,
                        quantity |-> 1]]
    /\ UNCHANGED engine_vars

\* self.client.placeOrder(orderId, contract, order) (line 164)
place_order_send ==
    \E t \in Threads :
    /\ trader.threads[t].pc = "read"
    /\ LET th == trader.threads[t]
       IN  trader' = [trader EXCEPT !.threads[t].pc = "placed",
                                    !.placed = Append(@, [orderId |-> th.orderId,
                                                          symbol |-> th.symbol,
                                                          action |-> th.action,
                                                          quantity |-> th.quantity])]
    /\ UNCHANGED engine_vars

\* the load of `self.client.next_order_id += 1` (line 165)
place_order_load ==
    \E t \in Threads :
    /\ trader.threads[t].pc = "placed"
    /\ trader' = [trader EXCEPT !.threads[t].pc = "loaded",
                                !.threads[t].loaded = trader.next_order_id]
    /\ UNCHANGED engine_vars

\* the store of `self.client.next_order_id += 1`, the return of orderId and
\* the trade record execute_trade appends for it (lines 107-118)
place_order_return ==
    \E t \in Threads :
    /\ trader.threads[t].pc = "loaded"
    /\ LET th == trader.threads[t]
       IN  trader' = [trader EXCEPT
               !.next_order_id = th.loaded + 1,
               !.threads[t] = Idle,
               !.trade_history = Append(@, [order_id |-> th.orderId, symbol |-> th.symbol,
                                            action |-> th.action,
                                            quantity |-> th.quantity,
                                            status |-> "PENDING", thread |-> t])]
    /\ UNCHANGED engine_vars

\* AlgoTrader.start_trading(): refused when not connected
start_trading ==
    /\ trader.connected
    /\ ~trader.trading_enabled
    /\ trader' = [trader EXCEPT !.trading_enabled = TRUE]
    /\ UNCHANGED engine_vars

PlaceOrderRead == \E t \in Threads : place_order_read(t)

NextOrder ==
    \/ connectAck
    \/ nextValidId
    \/ start_trading
    \/ PlaceOrderRead
    \/ place_order_send
    \/ place_order_load
    \/ place_order_return
OrderSpec == Init /\ [][NextOrder]_vars

\* the same calls made one after the other: a call begins when no other is
\* inside place_order
PlaceOrderAlone ==
    /\ \A t \in Threads : trader.threads[t].pc = "idle"
    /\ PlaceOrderRead
NextOrderAlone ==
    \/ connectAck
    \/ nextValidId
    \/ start_trading
    \/ PlaceOrderAlone
    \/ place_order_send
    \/ place_order_load
    \/ place_order_return
OrderAloneSpec == Init /\ [][NextOrderAlone]_vars

\* C38: every successful place_order returns an order id different from every
\* order id returned before, also when the scheduler thread and a web request
\* thread call it concurrently.
C38_OrderIdsDistinct ==
    \A j, k \in 1..Len(trader.trade_history) :
        j # k => trader.trade_history[j].order_id # trader.trade_history[k].order_id

\* the two threads have read the same next_order_id and both returned it
C38_SameIdFromBothThreads ==
    /\ Len(trader.trade_history) = 2
    /\ trader.trade_history[1].order_id = trader.trade_history[2].order_id
    /\ trader.trade_history[1].thread # trader.trade_history[2].thread
    /\ Len(trader.placed) = 2
    /\ trader.placed[1].orderId = trader.placed[2].orderId

\* an order is only sent once the gateway has announced an id: no order
\* carries the id None
C38_NoOrderWithoutId ==
    \A k \in 1..Len(trader.placed) : trader.placed[k].orderId # NoOrderId


\* ------------------------------------------------------------------
\* run_strategy (algo_trader.py) with the active strategy of the
\* StrategyManager, MovingAverageCrossover (trading_strategies.py)
\* ------------------------------------------------------------------

\* the symbols on the watchlist: a ticker, and the name under which the
\* strategy files the prices of that ticker
LiveSymbols == {"AAPL", "SYMBOL_AAPL"}
\* the number of run_strategy calls
MaxRuns == 3
\* the windows of the MovingAverageCrossover object (constructor arguments)
short_window == 1
long_window == 2
\* account_info.get('NetLiquidation', 100000)
AccountValue == 100000

\* f"SYMBOL_{reqId}" for the keys a market-data dict can have
SymbolKey(key) ==
    CASE key = "AAPL" -> "SYMBOL_AAPL"
      [] key = "SYMBOL_AAPL" -> "SYMBOL_SYMBOL_AAPL"

\* AlgoTrader.get_market_data(): the price of every watchlist symbol whose
\* request id has data, keyed by the symbol
get_market_data ==
    [symbol \in {s \in Members(trader.watchlist) :
                    trader.symbol_to_reqid[s] \in DOMAIN trader.data}
        |-> trader.data[trader.symbol_to_reqid[symbol]]]

\* prices[-n:]
LastN(prices, n) ==
    IF Len(prices) > n THEN SubSeq(prices, Len(prices) - n + 1, Len(prices)) ELSE prices

RECURSIVE SumSeq(_)
SumSeq(prices) == IF prices = <<>> THEN 0 ELSE Head(prices) + SumSeq(Tail(prices))

\* self.price_history.get(symbol, [])
History(price_history, key) ==
    IF key \in DOMAIN price_history THEN price_history[key] ELSE <<>>

\* update_price_history for every entry of market_data (lines 42-50, 55-61)
update_price_history(price_history, market_data) ==
    [key \in DOMAIN price_history \cup {SymbolKey(k) : k \in DOMAIN market_data} |->
        IF \E k \in DOMAIN market_data : SymbolKey(k) = key
        THEN LET k == CHOOSE k \in DOMAIN market_data : SymbolKey(k) = key
             IN  LastN(Append(History(price_history, key), market_data[k]),
                       long_window + 1)
        ELSE price_history[key]]

\* the 'signal' of a price history of at least long_window prices: the means
\* of the last short_window and the last long_window prices, compared
\* (lines 63-73; the two means are compared over a common denominator)
crossover(prices) ==
    LET short == LastN(prices, short_window)
        long == LastN(prices, long_window)
    IN  MovingAverageCrossover_signal(SumSeq(short) * Len(long), SumSeq(long) * Len(short))

\* MovingAverageCrossover.calculate_signals(market_data): the price histories
\* it leaves and the signals it returns, keyed by SymbolKey
calculate_signals(price_history, market_data) ==
    LET updated == update_price_history(price_history, market_data)
    IN  [price_history |-> updated,
         signals |-> [key \in {SymbolKey(k) : k \in {k \in DOMAIN market_data :
                                 Len(updated[SymbolKey(k)]) >= long_window}}
                        |-> crossover(updated[key])]]

\* should_buy / should_sell: `symbol in signals and signals[symbol]['signal'] == side`
should(side, symbol, sigs) == symbol \in DOMAIN sigs /\ sigs[symbol] = side

\* get_position_size: max(1, int(account_value * 0.05 / 100))
get_position_size(account_value) ==
    LET size == (account_value * 5) \div 10000 IN IF size > 1 THEN size ELSE 1

\* positions.get(symbol, {}).get('position', 0)
current_position(symbol) ==
    IF symbol \in DOMAIN trader.ib_positions THEN trader.ib_positions[symbol] ELSE 0

\* AlgoTrader.execute_trade called from run_strategy, on a state
\* st = [price_history, next_order_id, placed, trade_history]: place_order
\* returns None when no order id is known
live_execute_trade(st, symbol, action, quantity) ==
    IF st.next_order_id = NoOrderId THEN st
    ELSE [st EXCEPT !.next_order_id = @ + 1,
                    !.placed = Append(@, [orderId |-> st.next_order_id, symbol |-> symbol,
                                          action |-> action, quantity |-> quantity]),
                    !.trade_history = Append(@, [order_id |-> st.next_order_id,
                                                 symbol |-> symbol, action |-> action,
                                                 quantity |-> quantity, status |-> "PENDING",
                                                 thread |-> "scheduler"])]

\* the body of `for symbol in self.watchlist` for one symbol (lines 147-161);
\* st.seen notes, for the symbol, what the strategy computed for its prices
\* and the order the body sent
process_symbol(st, symbol, market_data) ==
    IF symbol \notin DOMAIN market_data THEN st
    ELSE
    LET held == current_position(symbol)
        first == calculate_signals(st.price_history, market_data)
        buy == should("BUY", symbol, first.signals)
        st1 == [st EXCEPT !.price_history = first.price_history]
        note == [symbol |-> symbol, position |-> held,
                 order_id |-> st.next_order_id,
                 buy_condition |-> should("BUY", SymbolKey(symbol), first.signals),
                 sell_condition |-> FALSE, order |-> "none", quantity |-> 0]
    IN  IF buy /\ held = 0
        THEN LET quantity == get_position_size(AccountValue)
             IN  IF quantity > 0
                 THEN [live_execute_trade(st1, symbol, "BUY", quantity) EXCEPT
                          !.seen = Append(@, [note EXCEPT !.order = "BUY",
                                                          !.quantity = quantity])]
                 ELSE [st1 EXCEPT !.seen = Append(@, note)]
        ELSE LET second == calculate_signals(first.price_history, market_data)
                 sell == should("SELL", symbol, second.signals)
                 st2 == [st EXCEPT !.price_history = second.price_history]
                 note2 == [note EXCEPT !.sell_condition =
                              should("SELL", SymbolKey(symbol), second.signals)]
             IN  IF sell /\ held > 0
                 THEN [live_execute_trade(st2, symbol, "SELL", held) EXCEPT
                          !.seen = Append(@, [note2 EXCEPT !.order = "SELL",
                                                           !.quantity = held])]
                 ELSE [st2 EXCEPT !.seen = Append(@, note2)]

RECURSIVE process_watchlist(_, _, _)
process_watchlist(st, watchlist, market_data) ==
    IF watchlist = <<>> THEN st
    ELSE process_watchlist(process_symbol(st, Head(watchlist), market_data),
                           Tail(watchlist), market_data)

\* AlgoTrader.run_strategy(), run by the scheduler thread: it returns at once
\* when trading is off, the client is not connected or no symbol has data
run_strategy ==
    /\ trader.trading_enabled
    /\ trader.connected
    /\ trader.runs < MaxRuns
    /\ LET market_data == get_market_data
       IN  /\ DOMAIN market_data # {}
           /\ LET st == process_watchlist(
                            [price_history |-> trader.price_history,
                             next_order_id |-> trader.next_order_id,
                             placed |-> trader.placed,
                             trade_history |-> trader.trade_history, seen |-> <<>>],
                            trader.watchlist, market_data)
              IN  trader' = [trader EXCEPT !.price_history = st.price_history,
                                           !.next_order_id = st.next_order_id,
                                           !.placed = st.placed,
                                           !.trade_history = st.trade_history,
                                           !.last_run = st.seen,
                                           !.runs = @ + 1]
    /\ UNCHANGED engine_vars

\* IBClient.position(account, contract, pos, avgCost): the gateway reports the
\* position of a symbol
position(symbol, pos) ==
    /\ current_position(symbol) # pos
    /\ trader' = [trader EXCEPT !.ib_positions = Put(@, symbol, pos)]
    /\ UNCHANGED engine_vars

AddLive == \E symbol \in LiveSymbols : add_to_watchlist(symbol)
Position == \E symbol \in LiveSymbols, pos \in 0..1 : position(symbol, pos)

NextLive ==
    \/ connectAck
    \/ nextValidId
    \/ start_trading
    \/ AddLive
    \/ TickPrice
    \/ Position
    \/ run_strategy
LiveSpec == Init /\ [][NextLive]_vars

\* C39: when trading is enabled and connected and the strategy's buy condition
\* holds on the price history of a watchlist symbol that has market data and
\* a position of 0, run_strategy places a BUY order for that symbol; likewise
\* a sell condition with a positive position places a SELL for the whole
\* position.  (Stated for runs that have an order id to give.)
C39_RunStrategyPlacesOrders ==
    \A k \in 1..Len(trader.last_run) :
        LET seen == trader.last_run[k]
        IN  seen.order_id # NoOrderId =>
              /\ seen.buy_condition /\ seen.position = 0 => seen.order = "BUY"
              /\ seen.sell_condition /\ seen.position > 0 =>
                     seen.order = "SELL" /\ seen.quantity = seen.position

\* a run in which the prices of AAPL gave BUY, AAPL had no position and an
\* order id was at hand, and no order was sent
C39_BuyConditionNoOrder ==
    \E k \in 1..Len(trader.last_run) :
        LET seen == trader.last_run[k]
        IN  /\ seen.symbol = "AAPL"
            /\ seen.buy_condition
            /\ seen.position = 0
            /\ seen.order_id # NoOrderId
            /\ seen.order = "none"
            /\ trader.placed = <<>>

\* an order of run_strategy is for a symbol whose own name is the key of
\* another symbol's prices
C39_OrdersOnlyForKeyNames ==
    \A k \in 1..Len(trader.placed) :
        \E other \in DOMAIN trader.symbol_to_reqid :
            SymbolKey(other) = trader.placed[k].symbol

====
